---- MODULE Spec2Model ----
(***************************************************************************)
(* Prompt Studio: the prompt resolution and streaming completion engine.   *)
(*                                                                         *)
(* Text is modelled as a sequence of one-character strings, so that the    *)
(* string operations of the source (split, join, slice, indexOf, trim,     *)
(* startsWith) are computed character by character.                        *)
(***************************************************************************)
EXTENDS Integers, Sequences, FiniteSets, TLC

VARIABLES
    call,           \* the last call of a pure function: its name, arguments and result
    gen,            \* one invocation of generateStream: where it is suspended, what it
                    \* was given and what it has yielded
    storage,        \* localStorage: the library, the providers, the last selection
    app,            \* the state of App: the view shown, the prompt handed to the editor
    view,           \* the state of CreateView
    resolutions,    \* the resolutions of the templates made by the last handler
    run,            \* the loop of handleRun over the increments of its generator
    api,            \* the calls of fetchModels and testConnection, in the order made
    providers       \* the state of ProvidersView

vars == <<call, gen, storage, app, view, resolutions, run, api, providers>>

\* the state of the application and of the browser storage
uiVars == <<storage, app, view, resolutions, run, api, providers>>

(***************************************************************************)
(* Bounds of the model.                                                    *)
(***************************************************************************)
\* longest template the resolver is called with
MaxTemplateLen == 6
\* most fragments an accumulated output text is built from
MaxPieces == 4
\* most lines of a streamed response body
MaxFrames == 3
\* most lines of a streamed response body whose lines carry usage
MaxUsageFrames == 2
\* longest system template typed key by key
MaxTyped == 8
\* most models in the form of a provider
MaxFormModels == 2
\* most requests for the models of a provider made from its form
MaxFetches == 1
\* most invocations of handleRun whose loops run at the same time
MaxRuns == 2
\* the largest number of provider configurations
MaxConfigs == 1
\* most items of a models response
MaxModels == 2
\* most provider configurations ProvidersView lists
MaxTested == 2
\* most calls of the provider client in one behaviour
MaxCalls == 2
\* the largest number of prompts saved from the editor
MaxPrompts == 1

(***************************************************************************)
(* JavaScript values and string built-ins.                                 *)
(***************************************************************************)
\* the JavaScript value undefined (no text is equal to it: its one element is not a character)
Undefined == <<"undefined">>
\* the JavaScript value null
Null == <<"null">>

\* the characters String.prototype.trim removes
Whitespace == {" ", "\n", "\r", "\t"}

Min(a, b) == IF a <= b THEN a ELSE b
Max(a, b) == IF a >= b THEN a ELSE b

\* s.startsWith(p)
StartsWith(s, p) == Len(p) <= Len(s) /\ SubSeq(s, 1, Len(p)) = p
\* s.endsWith(p)
EndsWith(s, p) == Len(p) <= Len(s) /\ SubSeq(s, Len(s) - Len(p) + 1, Len(s)) = p

\* s.indexOf(p): the 0-based index of the first occurrence, -1 when there is none
IndexOf(s, p) ==
    LET hits == {i \in 0..(Len(s) - Len(p)) : SubSeq(s, i + 1, i + Len(p)) = p}
    IN  IF hits = {} THEN -1 ELSE CHOOSE i \in hits : \A j \in hits : i <= j

\* s.slice(a, b) for a, b >= 0
Slice(s, a, b) ==
    LET from == Min(a, Len(s))
        to   == Min(b, Len(s))
    IN  IF from >= to THEN <<>> ELSE SubSeq(s, from + 1, to)

\* s.slice(a)
SliceFrom(s, a) == Slice(s, a, Len(s))

RECURSIVE TrimStart(_)
\* s.trimStart()
TrimStart(s) ==
    IF s # <<>> /\ Head(s) \in Whitespace THEN TrimStart(Tail(s)) ELSE s

RECURSIVE TrimEnd(_)
\* s.trimEnd()
TrimEnd(s) ==
    IF s # <<>> /\ s[Len(s)] \in Whitespace THEN TrimEnd(SubSeq(s, 1, Len(s) - 1)) ELSE s

\* s.trim()
Trim(s) == TrimEnd(TrimStart(s))

RECURSIVE Split(_, _)
\* s.split(sep) for a non-empty separator: the pieces between the occurrences
\* of sep, found left to right without overlap
Split(s, sep) ==
    LET i == IndexOf(s, sep)
    IN  IF i = -1 THEN <<s>>
        ELSE <<SubSeq(s, 1, i)>> \o Split(SubSeq(s, i + Len(sep) + 1, Len(s)), sep)

RECURSIVE Join(_, _)
\* parts.join(sep)
Join(parts, sep) ==
    IF parts = <<>> THEN <<>>
    ELSE IF Len(parts) = 1 THEN parts[1]
    ELSE parts[1] \o sep \o Join(Tail(parts), sep)

\* whether text p occurs in s
Contains(s, p) == IndexOf(s, p) # -1

(***************************************************************************)
(* Template resolver (TokenService.resolveVariables) and placeholder       *)
(* detection (CreateView detectedVariables).                               *)
(*                                                                         *)
(* A variable mapping is a sequence of <<key, value>> entries with         *)
(* distinct keys, in the order Object.entries enumerates them (insertion   *)
(* order for keys that are not array indices).                             *)
(***************************************************************************)
\* the placeholder `{${key}}`
Placeholder(key) == <<"{">> \o key \o <<"}">>

Keys(variables) == {variables[i][1] : i \in 1..Len(variables)}

HasKey(variables, k) == k \in Keys(variables)

\* variables[k], undefined when k is no key
Lookup(variables, k) ==
    IF HasKey(variables, k)
    THEN (CHOOSE e \in {variables[i] : i \in 1..Len(variables)} : e[1] = k)[2]
    ELSE Undefined

\* val || '' for a value that is a string or undefined
OrEmpty(val) == IF val = Undefined THEN <<>> ELSE val

\* text.replace(pattern, val) with a string pattern: the first occurrence only
ReplaceFirst(text, pattern, val) ==
    LET i == IndexOf(text, pattern)
    IN  IF i = -1 THEN text
        ELSE SubSeq(text, 1, i) \o val \o SubSeq(text, i + Len(pattern) + 1, Len(text))

RECURSIVE ResolveEntriesFirstOccurrence(_, _)
\* the forEach written with String.replace, which replaces one occurrence per key
ResolveEntriesFirstOccurrence(resolved, entries) ==
    IF entries = <<>> THEN resolved
    ELSE ResolveEntriesFirstOccurrence(
             ReplaceFirst(resolved, Placeholder(entries[1][1]), OrEmpty(entries[1][2])),
             Tail(entries))

RECURSIVE ResolveEntries(_, _)
\* the forEach over Object.entries(variables): one split/join per entry, each
\* applied to the result of the previous one
ResolveEntries(resolved, entries) ==
    IF entries = <<>> THEN resolved
    ELSE ResolveEntries(
             Join(Split(resolved, Placeholder(entries[1][1])), OrEmpty(entries[1][2])),
             Tail(entries))

\* TokenService.resolveVariables(text, variables)
resolveVariables(text, variables) == ResolveEntries(text, variables)

RECURSIVE DetectFromIntoArray(_, _)
\* the regex loop pushing every match into an array instead of a Set
DetectFromIntoArray(s, found) ==
    LET starts == {i \in 1..Len(s) :
                      /\ s[i] = "{"
                      /\ i + 1 <= Len(s) /\ s[i + 1] # "}"
                      /\ \E j \in (i + 2)..Len(s) : s[j] = "}"}
    IN  IF starts = {} THEN found
        ELSE LET i == CHOOSE x \in starts : \A y \in starts : x <= y
                 j == CHOOSE x \in (i + 2)..Len(s) :
                          s[x] = "}" /\ \A y \in (i + 2)..(x - 1) : s[y] # "}"
             IN  DetectFromIntoArray(SubSeq(s, j + 1, Len(s)),
                                     Append(found, SubSeq(s, i + 1, j - 1)))

RECURSIVE DetectFrom(_, _)
\* the regex loop /\{([^}]+)\}/g: the leftmost '{' that is followed by at least
\* one character other than '}' and then by '}' starts a match; the search
\* resumes after the match. found keeps the insertion order of the Set.
DetectFrom(s, found) ==
    LET starts == {i \in 1..Len(s) :
                      /\ s[i] = "{"
                      /\ i + 1 <= Len(s) /\ s[i + 1] # "}"
                      /\ \E j \in (i + 2)..Len(s) : s[j] = "}"}
    IN  IF starts = {} THEN found
        ELSE LET i    == CHOOSE x \in starts : \A y \in starts : x <= y
                 j    == CHOOSE x \in (i + 2)..Len(s) :
                             s[x] = "}" /\ \A y \in (i + 2)..(x - 1) : s[y] # "}"
                 name == SubSeq(s, i + 1, j - 1)
                 seen == \E k \in 1..Len(found) : found[k] = name
             IN  DetectFrom(SubSeq(s, j + 1, Len(s)),
                            IF seen THEN found ELSE Append(found, name))

\* detectedVariables for the combined text systemPrompt + userPrompt
detectedVariables(combined) == DetectFrom(combined, <<>>)

Range(seq) == {seq[i] : i \in 1..Len(seq)}

(***************************************************************************)
(* Reasoning splitter (CreateView parsedOutput).                           *)
(***************************************************************************)
ThinkOpen == <<"<","t","h","i","n","k",">">>
ThinkClose == <<"<","/","t","h","i","n","k",">">>

\* s.lastIndexOf(p)
LastIndexOf(s, p) ==
    LET hits == {i \in 0..(Len(s) - Len(p)) : SubSeq(s, i + 1, i + Len(p)) = p}
    IN  IF hits = {} THEN -1 ELSE CHOOSE i \in hits : \A j \in hits : i >= j

\* the split written with includes('<think>') as its guard
parsedOutputWithMarkerAnywhere(output) ==
    LET thinkEnd == IndexOf(output, ThinkClose)
    IN  IF output = <<>> THEN [thought |-> Null, content |-> <<>>]
        ELSE IF ~Contains(output, ThinkOpen)
        THEN [thought |-> Null, content |-> output]
        ELSE IF thinkEnd = -1
        THEN [thought |-> Trim(SliceFrom(output, 7)), content |-> <<>>]
        ELSE [thought |-> Trim(Slice(output, 7, thinkEnd)),
              content |-> Trim(SliceFrom(output, thinkEnd + 8))]

\* the split written with lastIndexOf('</think>')
parsedOutputAtLastClose(output) ==
    LET thinkEnd == LastIndexOf(output, ThinkClose)
    IN  IF output = <<>> THEN [thought |-> Null, content |-> <<>>]
        ELSE IF ~StartsWith(TrimStart(output), ThinkOpen)
        THEN [thought |-> Null, content |-> output]
        ELSE IF thinkEnd = -1
        THEN [thought |-> Trim(SliceFrom(output, 7)), content |-> <<>>]
        ELSE [thought |-> Trim(Slice(output, 7, thinkEnd)),
              content |-> Trim(SliceFrom(output, thinkEnd + 8))]

\* the split that takes the content after the last close marker
parsedOutputContentAfterLastClose(output) ==
    LET thinkEnd  == IndexOf(output, ThinkClose)
        lastClose == LastIndexOf(output, ThinkClose)
    IN  IF output = <<>> THEN [thought |-> Null, content |-> <<>>]
        ELSE IF ~StartsWith(TrimStart(output), ThinkOpen)
        THEN [thought |-> Null, content |-> output]
        ELSE IF thinkEnd = -1
        THEN [thought |-> Trim(SliceFrom(output, 7)), content |-> <<>>]
        ELSE [thought |-> Trim(Slice(output, 7, thinkEnd)),
              content |-> Trim(SliceFrom(output, lastClose + 8))]

\* parsedOutput: the split of the accumulated output text
parsedOutput(output) ==
    LET thinkEnd == IndexOf(output, ThinkClose)
    IN  IF output = <<>> THEN [thought |-> Null, content |-> <<>>]
        ELSE IF ~StartsWith(TrimStart(output), ThinkOpen)
        THEN [thought |-> Null, content |-> output]
        ELSE IF thinkEnd = -1
        THEN [thought |-> Trim(SliceFrom(output, 7)), content |-> <<>>]
        ELSE [thought |-> Trim(Slice(output, 7, thinkEnd)),
              content |-> Trim(SliceFrom(output, thinkEnd + 8))]

(***************************************************************************)
(* Streaming completion client (ApiService.generateStream).                *)
(*                                                                         *)
(* The response body is a sequence of bytes. A byte of an ASCII character  *)
(* is written as that character; the two bytes of the character U+00E9 are *)
(* written "C3" and "A9", the character itself "U+E9" and the replacement  *)
(* character "U+FFFD". The fixed JSON text around the content string and   *)
(* the usage number of a chunk is written as one symbol each (ContentPre,  *)
(* ContentPost, ...), so a chunk boundary falls between symbols.           *)
(***************************************************************************)
RECURSIVE DecodedBetween(_, _, _)
\* the characters completed by the bytes lo..hi of a sequence of bytes: C3 A9
\* is one character; a C3 that another byte than A9 follows and an A9 that
\* follows no C3 are replaced by U+FFFD; a C3 at the end completes nothing
DecodedBetween(all, lo, hi) ==
    IF lo > hi THEN <<>>
    ELSE IF lo < hi
    THEN DecodedBetween(all, lo, (lo + hi) \div 2)
             \o DecodedBetween(all, ((lo + hi) \div 2) + 1, hi)
    ELSE IF all[lo] = "C3"
    THEN (IF lo = Len(all) THEN <<>>
          ELSE IF all[lo + 1] = "A9" THEN <<"U+E9">> ELSE <<"U+FFFD">>)
    ELSE IF all[lo] = "A9"
    THEN (IF lo > 1 /\ all[lo - 1] = "C3" THEN <<>> ELSE <<"U+FFFD">>)
    ELSE <<all[lo]>>

\* decoder.decode(value, {stream: true}): the characters completed by the
\* bytes, and the bytes of an incomplete character kept for the next call
DecodeBytes(pendingBytes, bytes, text) ==
    LET all == pendingBytes \o bytes
    IN  [text |-> text \o DecodedBetween(all, 1, Len(all)),
         pendingBytes |-> IF all # <<>> /\ all[Len(all)] = "C3" THEN <<"C3">> ELSE <<>>]

RECURSIVE EncodeText(_)
\* the UTF-8 bytes of a text
EncodeText(text) ==
    IF text = <<>> THEN <<>>
    ELSE (IF Head(text) = "U+E9" THEN <<"C3", "A9">> ELSE <<Head(text)>>)
             \o EncodeText(Tail(text))

NewLine == <<"\n">>
DataPrefix == <<"d","a","t","a",":"," ">>
DoneSentinel == <<"d","a","t","a",":"," ","[","D","O","N","E","]">>

\* the JSON texts of the streamed payloads
ContentPre == <<"{\"choices\":[{\"delta\":{\"content\":\"">>
ContentPost == <<"\"}}]}">>
ContentUsageMid == <<"\"}}],\"usage\":{\"total_tokens\":">>
UsageOnlyPre == <<"{\"choices\":[],\"usage\":{\"total_tokens\":">>
UsagePost == <<"}}">>
DeltaWithoutContent == <<"{\"choices\":[{\"delta\":{}}]}">>
JsonNull == <<"null">>

Digits == {"0", "1", "2", "3", "4", "5", "6", "7", "8", "9"}

IsDigits(text) == text # <<>> /\ \A i \in 1..Len(text) : text[i] \in Digits

JsonSymbols ==
    {ContentPre[1], ContentPost[1], ContentUsageMid[1], UsageOnlyPre[1], UsagePost[1],
     DeltaWithoutContent[1], JsonNull[1]}

\* the characters a JSON string holds unescaped
IsPlainJsonString(text) ==
    \A i \in 1..Len(text) : text[i] \notin {"\"", "\\", "\n", "\r", "\t"} \cup JsonSymbols

\* a usage snapshot, by the digits of its total_tokens
UsageSnapshot(digits) == <<"usage">> \o digits

JsonSyntaxError == [kind |-> "SyntaxError", content |-> Undefined, usage |-> Undefined]

\* JSON.parse(payload) followed by the reads of json.choices?.[0]?.delta?.content
\* and json.usage, for the payload shapes of a chat completion chunk; kind is
\* "object", "null" (json.choices then throws a TypeError) or "SyntaxError"
ParseChunk(payload) ==
    IF payload = JsonNull
    THEN [kind |-> "null", content |-> Undefined, usage |-> Undefined]
    ELSE IF payload = DeltaWithoutContent
    THEN [kind |-> "object", content |-> Undefined, usage |-> Undefined]
    ELSE IF StartsWith(payload, UsageOnlyPre) /\ EndsWith(payload, UsagePost)
            /\ Len(payload) >= Len(UsageOnlyPre) + Len(UsagePost)
    THEN LET digits == SubSeq(payload, Len(UsageOnlyPre) + 1, Len(payload) - Len(UsagePost))
         IN  IF IsDigits(digits)
             THEN [kind |-> "object", content |-> Undefined, usage |-> UsageSnapshot(digits)]
             ELSE JsonSyntaxError
    ELSE IF StartsWith(payload, ContentPre)
    THEN LET rest   == SliceFrom(payload, Len(ContentPre))
             closes == {i \in 1..Len(rest) : ~IsPlainJsonString(<<rest[i]>>)}
             close  == IF closes = {} THEN Len(rest) + 1
                       ELSE CHOOSE i \in closes : \A j \in closes : i <= j
             text   == SubSeq(rest, 1, close - 1)
             tail   == SubSeq(rest, close, Len(rest))
         IN  IF tail = ContentPost
             THEN [kind |-> "object", content |-> text, usage |-> Undefined]
             ELSE IF StartsWith(tail, ContentUsageMid) /\ EndsWith(tail, UsagePost)
                     /\ Len(tail) >= Len(ContentUsageMid) + Len(UsagePost)
                     /\ IsDigits(SubSeq(tail, Len(ContentUsageMid) + 1,
                                        Len(tail) - Len(UsagePost)))
             THEN [kind |-> "object", content |-> text,
                   usage |-> UsageSnapshot(SubSeq(tail, Len(ContentUsageMid) + 1,
                                                  Len(tail) - Len(UsagePost)))]
             ELSE JsonSyntaxError
    ELSE JsonSyntaxError

\* a stream increment (StreamChunk)
ContentIncrement(content, usage) ==
    [content |-> content, usage |-> usage, error |-> Undefined]

ErrorIncrement(message) ==
    [content |-> Undefined, usage |-> Undefined, error |-> message]

\* the loop body that makes a text of whatever the delta holds
IncrementsOfLineWithTextOfContent(line) ==
    LET trimmed == Trim(line)
    IN  IF trimmed = <<>> \/ trimmed = DoneSentinel THEN <<>>
        ELSE IF StartsWith(trimmed, DataPrefix)
        THEN LET json == ParseChunk(SliceFrom(trimmed, 6))
             IN  IF json.kind = "object"
                 THEN <<ContentIncrement(IF json.content = Undefined
                                         THEN <<"u","n","d","e","f","i","n","e","d">>
                                         ELSE json.content,
                                         json.usage)>>
                 ELSE <<>>
        ELSE <<>>

\* the loop body with a catch that reports the parse error as an increment
IncrementsOfLineReportingParseError(line) ==
    LET trimmed == Trim(line)
    IN  IF trimmed = <<>> \/ trimmed = DoneSentinel THEN <<>>
        ELSE IF StartsWith(trimmed, DataPrefix)
        THEN LET json == ParseChunk(SliceFrom(trimmed, 6))
             IN  IF json.kind = "object"
                 THEN <<ContentIncrement(OrEmpty(json.content), json.usage)>>
                 ELSE <<ErrorIncrement(<<"p","a","r","s","e">>)>>
        ELSE <<>>

\* one pass of the loop over the complete lines: the increments the line yields
IncrementsOfLine(line) ==
    LET trimmed == Trim(line)
    IN  IF trimmed = <<>> \/ trimmed = DoneSentinel THEN <<>>
        ELSE IF StartsWith(trimmed, DataPrefix)
        THEN LET json == ParseChunk(SliceFrom(trimmed, 6))
             IN  IF json.kind = "object"
                 THEN <<ContentIncrement(OrEmpty(json.content), json.usage)>>
                 ELSE <<>>
        ELSE <<>>

RECURSIVE IncrementsOfLinesUntilDone(_)
\* the loop over the lines left at the sentinel line
IncrementsOfLinesUntilDone(lines) ==
    IF lines = <<>> \/ Trim(Head(lines)) = DoneSentinel THEN <<>>
    ELSE IncrementsOfLine(Head(lines)) \o IncrementsOfLinesUntilDone(Tail(lines))


RECURSIVE IncrementsOfLines(_)
\* for (const line of lines)
IncrementsOfLines(lines) ==
    IF lines = <<>> THEN <<>>
    ELSE IncrementsOfLine(Head(lines)) \o IncrementsOfLines(Tail(lines))

\* the decimal digits of a natural number (template literal `${response.status}`)
RECURSIVE Decimal(_)
Decimal(n) ==
    LET digit == <<"0", "1", "2", "3", "4", "5", "6", "7", "8", "9">>[(n % 10) + 1]
    IN  IF n < 10 THEN <<digit>> ELSE Append(Decimal(n \div 10), digit)

HttpErrorPrefix == <<"H","T","T","P"," ","E","r","r","o","r"," ">>
StreamErrorMessage == <<"S","t","r","e","a","m"," ","e","r","r","o","r">>
NoResponseBodyMessage == <<"N","o"," ","r","e","s","p","o","n","s","e"," ","b","o","d","y">>

\* the JSON texts of an error response
ErrorMessagePre == <<"{","\"","e","r","r","o","r","\"",":","{","\"","m","e","s","s","a","g","e","\"",":","\"">>
ErrorMessagePost == <<"\"","}","}">>
EmptyObject == <<"{","}">>

\* (await response.json().catch(() => ({})))?.error?.message for the bodies of
\* an error response: {"error":{"message":"..."}}, {}, null, or no JSON at all
NestedErrorMessage(body) ==
    IF StartsWith(body, ErrorMessagePre) /\ EndsWith(body, ErrorMessagePost)
          /\ Len(body) >= Len(ErrorMessagePre) + Len(ErrorMessagePost)
          /\ IsPlainJsonString(SubSeq(body, Len(ErrorMessagePre) + 1,
                                      Len(body) - Len(ErrorMessagePost)))
    THEN SubSeq(body, Len(ErrorMessagePre) + 1, Len(body) - Len(ErrorMessagePost))
    ELSE Undefined

\* whether a value that is a string, an object, null or undefined is truthy
Truthy(value) == value # Undefined /\ value # Null /\ value # <<>>

\* a || b for a string or undefined a: b when a is undefined or empty
OrElse(a, b) == IF a = Undefined \/ a = <<>> THEN b ELSE a

\* errData?.error?.message || `HTTP Error ${response.status}`
HttpFailureMessageIgnoringBody(body, status) == HttpErrorPrefix \o Decimal(status)

HttpFailureMessage(body, status) ==
    OrElse(NestedErrorMessage(body), HttpErrorPrefix \o Decimal(status))

ChatCompletionsPath == <<"/","c","h","a","t","/","c","o","m","p","l","e","t","i","o","n","s">>

\* the request target: strip one trailing slash, append /chat/completions
\* unless the address ends with it
CompletionUrl(baseUrl) ==
    LET url == IF EndsWith(baseUrl, <<"/">>) THEN Slice(baseUrl, 0, Len(baseUrl) - 1)
               ELSE baseUrl
    IN  IF ~EndsWith(url, ChatCompletionsPath) THEN url \o ChatCompletionsPath ELSE url

BearerPrefix == <<"B","e","a","r","e","r"," ">>

\* the Authorization header, undefined when no key is configured
Authorization(apiKey) == IF apiKey # <<>> THEN BearerPrefix \o apiKey ELSE Undefined

\* the generator after its first resumption: the request is issued and the
\* function is suspended at await fetch(...)
GeneratorStarted(config, model, messages) ==
    [pc           |-> "fetch",
     config       |-> config,
     request      |-> [url |-> CompletionUrl(config.baseUrl),
                       authorization |-> Authorization(config.apiKey),
                       model |-> model, messages |-> messages, stream |-> TRUE],
     response     |-> [kind |-> "none"],
     transport    |-> "open",
     wire         |-> <<>>,
     pendingBytes |-> <<>>,
     buffer       |-> <<>>,
     midLine      |-> FALSE,
     yielded      |-> <<>>]

\* a catch placed inside the loop: the error is yielded and the generator goes on
CaughtInsideLoop(g, message) ==
    [g EXCEPT !.yielded = Append(@, [content |-> Undefined, usage |-> Undefined,
                                     error |-> IF message = <<>> THEN <<"?">> ELSE message])]

\* the function without its catch: the error leaves it and the generator is
\* closed with nothing yielded
Rethrown(g, message) == [g EXCEPT !.pc = "thrown"]


\* catch (e) { yield { error: e.message || 'Stream error' } }: the generator ends
Caught(g, message) ==
    [g EXCEPT !.pc = "done",
              !.yielded = Append(@, ErrorIncrement(OrElse(message, StreamErrorMessage)))]

\* the generator resumed with the outcome of fetch
AfterFetch(g, response) ==
    LET answered == [g EXCEPT !.response = response]
    IN  IF response.kind = "rejected"
        THEN Caught([answered EXCEPT !.transport = "failed"], response.message)
        ELSE IF ~response.ok
        THEN Caught(answered, HttpFailureMessage(response.body, response.status))
        ELSE IF ~response.hasBody
        THEN Caught(answered, NoResponseBodyMessage)
        ELSE [answered EXCEPT !.pc = "read", !.wire = response.body]

\* the chunk handled without the pending partial line: every piece of the
\* decoded text is taken for a complete line
AfterChunkWithoutBuffer(g, n) ==
    LET decoded == DecodeBytes(g.pendingBytes, SubSeq(g.wire, 1, n), <<>>)
        lines   == Split(decoded.text, NewLine)
    IN  [g EXCEPT !.wire = SubSeq(@, n + 1, Len(@)),
                  !.pendingBytes = decoded.pendingBytes,
                  !.buffer = <<>>,
                  !.midLine = @ \/ lines[Len(lines)] # <<>>,
                  !.yielded = @ \o IncrementsOfLines(lines)]

\* the generator resumed with a chunk of n bytes from reader.read(); midLine
\* records that some chunk ended inside a line
AfterChunk(g, n) ==
    LET decoded == DecodeBytes(g.pendingBytes, SubSeq(g.wire, 1, n), <<>>)
        lines   == Split(g.buffer \o decoded.text, NewLine)
    IN  [g EXCEPT !.wire = SubSeq(@, n + 1, Len(@)),
                  !.pendingBytes = decoded.pendingBytes,
                  !.buffer = lines[Len(lines)],
                  !.midLine = @ \/ lines[Len(lines)] # <<>>,
                  !.yielded = @ \o IncrementsOfLines(SubSeq(lines, 1, Len(lines) - 1))]

\* the generator resumed with { done: true }
AfterDone(g) == [g EXCEPT !.pc = "done", !.transport = "complete"]

\* the generator resumed with a rejected read
AfterReadFailure(g, message) == Caught([g EXCEPT !.transport = "failed"], message)

(***************************************************************************)
(* Inputs of the pure functions.                                           *)
(***************************************************************************)
\* all texts over alphabet of length at most n
RECURSIVE TextsUpTo(_, _)
TextsUpTo(alphabet, n) ==
    IF n = 0 THEN {<<>>}
    ELSE LET shorter == TextsUpTo(alphabet, n - 1)
         IN  shorter \cup {Append(t, c) : t \in shorter, c \in alphabet}

TemplateAlphabet == {"{", "}", "a", "b"}

HiName == <<"H","i"," ","{","n","a","m","e","}">>

Templates == TextsUpTo(TemplateAlphabet, MaxTemplateLen) \cup {HiName}

VariableNames == {<<"a">>, <<"b">>}

VariableValues == {<<>>, <<"x">>, <<"{","a","}">>, <<"{","b","}">>}

\* the mappings with at most two entries, in every insertion order, and the
\* mapping {name: "Bob"}
Mappings ==
    {<<>>}
    \cup {<<<<k, v>>>> : k \in VariableNames, v \in VariableValues}
    \cup {<<<<ks[1], v1>>, <<ks[2], v2>>>> :
             ks \in {p \in VariableNames \X VariableNames : p[1] # p[2]},
             v1 \in VariableValues, v2 \in VariableValues}
    \cup {<<<<<<"n","a","m","e">>, <<"B","o","b">>>>>>}

AAndAAndB == <<"{","a","}"," ","a","n","d"," ","{","a","}"," ","a","n","d"," ","{","b","}">>

\* the texts scanned for placeholders
ScannedTexts == Templates \cup {AAndAAndB}

\* the fragments an accumulated output text is made of
OutputPieces == {<<" ">>, <<"\n">>, ThinkOpen, ThinkClose, <<"a">>, <<"b", " ">>}

RECURSIVE ConcatsUpTo(_, _)
ConcatsUpTo(pieces, n) ==
    IF n = 0 THEN {<<>>}
    ELSE LET shorter == ConcatsUpTo(pieces, n - 1)
         IN  shorter \cup {t \o p : t \in shorter, p \in pieces}

OutputTexts == ConcatsUpTo(OutputPieces, MaxPieces)

(***************************************************************************)
(* Responses of the provider.                                              *)
(***************************************************************************)
\* a line of a response body, with what it carries
ContentLine(content) ==
    [kind |-> "content", content |-> content, usage |-> Undefined,
     text |-> DataPrefix \o ContentPre \o content \o ContentPost]

MalformedLine ==
    [kind |-> "malformed", content |-> Undefined, usage |-> Undefined,
     text |-> <<"d","a","t","a",":"," ","{","n","o","t"," ","j","s","o","n","}">>]

DoneLine ==
    [kind |-> "done", content |-> Undefined, usage |-> Undefined, text |-> DoneSentinel]

BlankLine ==
    [kind |-> "blank", content |-> Undefined, usage |-> Undefined, text |-> <<>>]

Hel == <<"H","e","l">>
lo == <<"l","o">>

\* the lines that carry the content fragments of the answer (the last one is
\* one two-byte character)
ContentLines == {ContentLine(Hel), ContentLine(lo), ContentLine(<<"U+E9">>)}

\* the other lines: a payload that is no JSON, the sentinel and the blank line
SpecialLines == {MalformedLine, DoneLine, BlankLine}

RECURSIVE SeqsUpTo(_, _)
\* the sequences of at most n elements of a set
SeqsUpTo(S, n) ==
    IF n = 0 THEN {<<>>}
    ELSE LET shorter == SeqsUpTo(S, n - 1)
         IN  shorter \cup {Append(q, x) : q \in shorter, x \in S}

RECURSIVE BodyText(_, _)
\* the lines, each ended by a newline, the last one only if finalNewline
BodyText(lines, finalNewline) ==
    IF lines = <<>> THEN <<>>
    ELSE IF Len(lines) = 1
    THEN lines[1].text \o (IF finalNewline THEN NewLine ELSE <<>>)
    ELSE lines[1].text \o NewLine \o BodyText(Tail(lines), finalNewline)

\* a success response with a body
StreamResponse(lines, finalNewline) ==
    [kind |-> "http", ok |-> TRUE, status |-> 200, hasBody |-> TRUE,
     lines |-> lines, finalNewline |-> finalNewline,
     body |-> EncodeText(BodyText(lines, finalNewline)), message |-> <<>>]

\* a success response without a body (response.body is null)
BodilessResponse ==
    [kind |-> "http", ok |-> TRUE, status |-> 204, hasBody |-> FALSE,
     lines |-> <<>>, finalNewline |-> FALSE, body |-> <<>>, message |-> <<>>]

\* a response with a status that is not a success
FailureResponse(status, body) ==
    [kind |-> "http", ok |-> FALSE, status |-> status, hasBody |-> TRUE,
     lines |-> <<>>, finalNewline |-> FALSE, body |-> body, message |-> <<>>]

\* fetch rejects (no response)
RejectedFetch(message) ==
    [kind |-> "rejected", ok |-> FALSE, status |-> 0, hasBody |-> FALSE,
     lines |-> <<>>, finalNewline |-> FALSE, body |-> <<>>, message |-> message]

FailureStatuses == {401, 500}

ErrorBodies ==
    {ErrorMessagePre \o <<"b","a","d"," ","k","e","y">> \o ErrorMessagePost,
     ErrorMessagePre \o ErrorMessagePost,
     EmptyObject, JsonNull, <<"B","a","d"," ","G","a","t","e","w","a","y">>}

\* the messages of a transport failure (TypeError: Failed to fetch, or none)
TransportMessages == {<<"F","a","i","l","e","d"," ","t","o"," ","f","e","t","c","h">>, <<>>}

\* the bodies of at most MaxFrames lines, at most one of them special
StreamBodies ==
    {lines \in SeqsUpTo(ContentLines \cup SpecialLines, MaxFrames) :
        Cardinality({i \in 1..Len(lines) : lines[i] \in SpecialLines}) <= 1}

StreamResponses ==
    {StreamResponse(lines, nl) : lines \in StreamBodies, nl \in BOOLEAN}
    \cup {BodilessResponse}
    \cup {FailureResponse(status, body) : status \in FailureStatuses, body \in ErrorBodies}
    \cup {RejectedFetch(message) : message \in TransportMessages}

\* a line whose delta carries no content, and no usage
DeltaLine ==
    [kind |-> "delta", content |-> Undefined, usage |-> Undefined,
     text |-> DataPrefix \o DeltaWithoutContent]

\* a line with a usage snapshot and no choice
UsageLine(digits) ==
    [kind |-> "usage", content |-> Undefined, usage |-> UsageSnapshot(digits),
     text |-> DataPrefix \o UsageOnlyPre \o digits \o UsagePost]

\* a line with a content fragment and a usage snapshot
ContentUsageLine(content, digits) ==
    [kind |-> "content", content |-> content, usage |-> UsageSnapshot(digits),
     text |-> DataPrefix \o ContentPre \o content \o ContentUsageMid \o digits \o UsagePost]

\* lines with and without content, with and without usage
UsageLines == {DeltaLine, ContentLine(Hel), UsageLine(<<"7">>), ContentUsageLine(lo, <<"9">>)}

\* the answers of at most MaxUsageFrames of these lines, and the failures
UsageResponses ==
    {StreamResponse(lines, TRUE) : lines \in SeqsUpTo(UsageLines, MaxUsageFrames)}
    \cup {BodilessResponse}
    \cup {FailureResponse(status, body) : status \in FailureStatuses, body \in ErrorBodies}
    \cup {RejectedFetch(message) : message \in TransportMessages}

\* provider configurations of the streaming requests
OpenAiUrl == <<"h","t","t","p","s",":","/","/","a","p","i",".","o","p","e","n","a","i",".","c","o","m","/","v","1">>

StreamConfigs ==
    {[id |-> <<"p">>, baseUrl |-> OpenAiUrl, apiKey |-> <<"k">>, models |-> <<<<"m">>>>]}

\* no call of a pure function
NoCall == [fn |-> "none", text |-> <<>>, variables |-> <<>>, returned |-> FALSE, result |-> <<>>]

\* no generator
NoGenerator == [pc |-> "none"]

\* no file: pendingImportData is null
NoFile == [version |-> Null, prompts |-> <<>>, providers |-> <<>>, appSettings |-> <<>>]

\* the state of ProvidersView when it is constructed; App renders either
\* ProvidersView or SettingsView, and the last two fields are the state of
\* SettingsView when it is constructed
NewProvidersView ==
    [configs |-> <<>>, testResults |-> <<>>, isGlobalTesting |-> FALSE,
     editingId |-> Null,
     form |-> [id |-> <<>>, baseUrl |-> <<>>, apiKey |-> <<>>, models |-> <<>>],
     newModelName |-> <<>>, isFetchingModels |-> FALSE, fetchedModels |-> <<>>,
     showImportConfirm |-> FALSE, pendingImportData |-> NoFile]

\* no run: handleRun has not reached its loop; earlier holds the loops of
\* the invocations of handleRun that were followed by another one while
\* they were still running, each with its generator
NoRun == [pc |-> "none", fullContent |-> <<>>, taken |-> 0, earlier |-> <<>>]

(***************************************************************************)
(* The application shell (App), the editor view (CreateView), the provider *)
(* settings (ProvidersView) and the browser storage (StorageService).      *)
(*                                                                         *)
(* A handler of the view is one step: its state updates, the render they   *)
(* cause, and the effects of that render in the order the component        *)
(* declares them, repeated until no effect has a changed dependency.  An   *)
(* effect reads the values of the render it belongs to; the updates the    *)
(* effects queue are applied together, in order, before the next render.   *)
(* The library is kept as the set of its prompts: its order is not part of *)
(* this model.                                                             *)
(***************************************************************************)
\* initialPrompt / pendingPrompt when null
NoPrompt == [id |-> Null, systemPrompt |-> <<>>, userPrompt |-> <<>>, variables |-> <<>>]

\* `${c.id}:${m}`
ModelKey(id, model) == id \o <<":">> \o model

\* the i-th name of an array destructuring
At(parts, i) == IF i <= Len(parts) THEN parts[i] ELSE Undefined

\* the 1-based position of the first item with the id, 0 when find gives undefined
FindIndex(items, id) ==
    LET hits == {i \in 1..Len(items) : items[i].id = id}
    IN  IF hits = {} THEN 0 ELSE CHOOSE i \in hits : \A j \in hits : i <= j

isValidModelKey(key, currentConfigs) ==
    LET parts == Split(key, <<":">>)
        p     == FindIndex(currentConfigs, At(parts, 1))
    IN  p # 0 /\ At(parts, 2) \in Range(currentConfigs[p].models)

\* the estimate rounding down
estimateRoundingDown(text) == IF text \in {<<>>, Undefined, Null} THEN 0 ELSE Len(text) \div 4

\* TokenService.estimate
estimate(text) == IF text \in {<<>>, Undefined, Null} THEN 0 ELSE (Len(text) + 3) \div 4

\* {...variables, [k]: val}
SetVariable(variables, k, val) ==
    IF HasKey(variables, k)
    THEN [i \in 1..Len(variables) |->
             IF variables[i][1] = k THEN <<k, val>> ELSE variables[i]]
    ELSE Append(variables, <<k, val>>)

RECURSIVE InitializeNew(_, _)
\* detectedVariables.forEach(v => { if (next[v] === undefined) next[v] = '' })
InitializeNew(next, names) ==
    IF names = <<>> THEN next
    ELSE InitializeNew(IF Lookup(next, Head(names)) = Undefined
                       THEN Append(next, <<Head(names), <<>>>>)
                       ELSE next,
                       Tail(names))

\* the state of CreateView when it is constructed
NewView ==
    [systemPrompt |-> <<>>, userPrompt |-> <<>>, variables |-> <<>>,
     configs |-> <<>>, selectedModelKey |-> <<>>,
     tokenCounts |-> [sysRaw |-> 0, sysResolved |-> 0, userRaw |-> 0, userResolved |-> 0],
     currentId |-> Null, showOverwriteModal |-> FALSE, pendingPrompt |-> NoPrompt,
     isLoading |-> FALSE, error |-> Null, output |-> <<>>, usage |-> Null,
     parsedOutput |-> [thought |-> Null, content |-> <<>>],
     toast |-> Null]

\* the state of App when it is constructed
NewApp == [currentView |-> "debug", promptToEdit |-> NoPrompt]

View == {"debug", "manage", "providers", "settings"}

\* the state a handler works on; resolutions collects the resolutions of the
\* templates the handler causes, set the states replaced by a new object
World == [view |-> view, app |-> app, storage |-> storage, resolutions |-> <<>>, set |-> {}]

\* what one render of CreateView shows to its effects
Rendered(w) ==
    [view |-> w.view,
     initialPrompt |-> w.app.promptToEdit,
     isVisible |-> w.app.currentView = "debug",
     detectedVariables |-> detectedVariables(w.view.systemPrompt \o w.view.userPrompt)]

\* one pass of resolveVariables over both templates
Resolution(by, systemPrompt, userPrompt, variables) ==
    [by |-> by, systemPrompt |-> systemPrompt, userPrompt |-> userPrompt,
     variables |-> variables,
     finalSystem |-> resolveVariables(systemPrompt, variables),
     finalUser |-> resolveVariables(userPrompt, variables)]

\* useEffect(..., [isVisible]): reload the configurations, repair the selection
VisibleEffect(w, r, deps) ==
    IF "isVisible" \notin deps \/ ~r.isVisible THEN w
    ELSE LET loadedConfigs == w.storage.configs
             savedModelKey == w.storage.activeModel
             loaded        == [w EXCEPT !.view.configs = loadedConfigs]
         IN  IF r.view.selectedModelKey = <<>>
                  \/ ~isValidModelKey(r.view.selectedModelKey, loadedConfigs)
             THEN IF savedModelKey # <<>> /\ isValidModelKey(savedModelKey, loadedConfigs)
                  THEN [loaded EXCEPT !.view.selectedModelKey = savedModelKey]
                  ELSE IF Len(loadedConfigs) > 0 /\ Len(loadedConfigs[1].models) > 0
                       THEN LET defaultKey == ModelKey(loadedConfigs[1].id,
                                                       loadedConfigs[1].models[1])
                            IN  [loaded EXCEPT !.view.selectedModelKey = defaultKey,
                                               !.storage.activeModel = defaultKey]
                       ELSE loaded
             ELSE loaded

\* useEffect(..., [systemPrompt, userPrompt, variables]): the token counts
TokenEffect(w, r, deps) ==
    LET res == Resolution("tokens", r.view.systemPrompt, r.view.userPrompt, r.view.variables)
    IN  IF deps \cap {"systemPrompt", "userPrompt", "variables"} = {} THEN w
        ELSE
        [w EXCEPT !.view.tokenCounts =
                      [sysRaw |-> estimate(r.view.systemPrompt),
                       sysResolved |-> estimate(res.finalSystem),
                       userRaw |-> estimate(r.view.userPrompt),
                       userResolved |-> estimate(res.finalUser)],
                  !.resolutions = Append(@, res)]

loadPrompt(w, prompt) ==
    [w EXCEPT !.view.systemPrompt = prompt.systemPrompt,
              !.view.userPrompt = prompt.userPrompt,
              !.view.variables = prompt.variables,
              !.view.currentId = prompt.id,
              !.set = @ \cup {"variables"}]

\* the effect without the comparison of the contents: the prompt that is
\* loaded already is loaded again
InitialPromptEffectReloadingSameId(w, r, deps) ==
    IF \/ deps \cap {"initialPrompt", "onClearInitial", "systemPrompt",
                      "userPrompt", "currentId", "variables"} = {}
       \/ r.initialPrompt.id = Null
    THEN w
    ELSE LET initialPrompt == r.initialPrompt
             hasContent    == Trim(r.view.systemPrompt) # <<>> \/ Trim(r.view.userPrompt) # <<>>
             isDifferentId == initialPrompt.id # r.view.currentId
             asked == [w EXCEPT !.view.pendingPrompt = initialPrompt,
                                !.view.showOverwriteModal = TRUE]
             handled == IF hasContent /\ isDifferentId THEN asked
                        ELSE loadPrompt(w, initialPrompt)
         IN  [handled EXCEPT !.app.promptToEdit = NoPrompt]

\* useEffect(..., [initialPrompt, ...]): the prompt handed over by the library
InitialPromptEffect(w, r, deps) ==
    IF \/ deps \cap {"initialPrompt", "onClearInitial", "systemPrompt",
                      "userPrompt", "currentId", "variables"} = {}
       \/ r.initialPrompt.id = Null
    THEN w
    ELSE LET initialPrompt == r.initialPrompt
             hasContent    == Trim(r.view.systemPrompt) # <<>> \/ Trim(r.view.userPrompt) # <<>>
             isDifferentId == initialPrompt.id # r.view.currentId
             contentChanged ==
                 \/ r.view.systemPrompt # initialPrompt.systemPrompt
                 \/ r.view.userPrompt # initialPrompt.userPrompt
                 \/ r.view.variables # initialPrompt.variables
             asked == [w EXCEPT !.view.pendingPrompt = initialPrompt,
                                !.view.showOverwriteModal = TRUE]
             handled ==
                 IF hasContent /\ isDifferentId THEN asked
                 ELSE IF hasContent /\ ~isDifferentId
                      THEN (IF contentChanged THEN asked ELSE loadPrompt(w, initialPrompt))
                      ELSE loadPrompt(w, initialPrompt)
         IN  [handled EXCEPT !.app.promptToEdit = NoPrompt]

\* useEffect(..., [detectedVariables]): keep the values, initialise new names
SyncEffect(w, r, deps) ==
    IF deps \cap {"systemPrompt", "userPrompt"} = {} THEN w
    ELSE [w EXCEPT !.view.variables = InitializeNew(@, r.detectedVariables),
                   !.set = @ \cup {"variables"}]

\* the dependencies of the effects that differ between two renders
Changed(before, after) ==
    {f \in {"systemPrompt", "userPrompt", "currentId"} : before.view[f] # after.view[f]}
        \cup (IF "variables" \in after.set THEN {"variables"} ELSE {})
        \cup (IF before.app.promptToEdit # after.app.promptToEdit
              THEN {"initialPrompt"} ELSE {})
        \cup (IF before.app # after.app THEN {"onClearInitial"} ELSE {})
        \cup (IF (before.app.currentView = "debug") # (after.app.currentView = "debug")
              THEN {"isVisible"} ELSE {})

\* the effects of the render r, in declaration order, each run when one of its
\* dependencies is in deps
EffectsOf(w, r, deps) ==
    SyncEffect(
        InitialPromptEffect(
            TokenEffect(
                VisibleEffect([w EXCEPT !.set = {}], r, deps),
                r, deps),
            r, deps),
        r, deps)

Effects(w, deps) == EffectsOf(w, Rendered(w), deps)

RECURSIVE Commit(_, _)
\* render and run effects until no dependency has changed
Commit(w, deps) ==
    IF deps = {} THEN w
    ELSE LET after == Effects(w, deps) IN Commit(after, Changed(w, after))

\* the first render runs every effect
Mounted(stored) ==
    Commit([view |-> NewView, app |-> NewApp, storage |-> stored,
            resolutions |-> <<>>, set |-> {}],
           {"isVisible", "systemPrompt", "userPrompt", "variables", "initialPrompt",
            "onClearInitial", "currentId"})

\* the state after a handler that leaves the world as w
Handled(w) ==
    \E after \in {Commit(w, Changed(World, w))} :
        /\ view' = after.view
        /\ app' = after.app
        /\ storage' = after.storage
        /\ resolutions' = after.resolutions

\* the editor can be operated
Shown == app.currentView = "debug" /\ ~view.showOverwriteModal

(***************************************************************************)
(* Inputs of the handlers.                                                 *)
(***************************************************************************)
\* texts typed into the two template fields
EditorTexts == {<<>>, <<"{","a","}">>}

\* texts typed into a variable field
EditorValues == {<<>>, <<"x">>}

\* model identifiers a provider can list: Ollama tags hold a colon
Gpt4o == <<"g","p","t","-","4","o">>
Llama3Tag == <<"l","l","a","m","a","3",":","8","b">>
ModelNames == {Gpt4o, Llama3Tag}

\* the lists of models of a saved provider: not empty, no duplicates
ModelLists ==
    {<<m>> : m \in ModelNames}
        \cup {<<ms[1], ms[2]>> : ms \in {p \in ModelNames \X ModelNames : p[1] # p[2]}}

ProviderIds == {<<"p">> \o Decimal(i) : i \in 1..MaxConfigs}

Provider(id, models) ==
    [id |-> id, baseUrl |-> OpenAiUrl, apiKey |-> <<"k">>, models |-> models]

PromptIds == {<<"s">> \o Decimal(i) : i \in 1..MaxPrompts}

\* the prompts of the files given to importData: the file is not checked, so
\* the variables of a prompt need not hold the names of its templates
ImportedPrompts ==
    {[id |-> <<"i">>, systemPrompt |-> <<"{","a","}">>, userPrompt |-> <<>>,
      variables |-> <<>>],
     [id |-> <<"i">>, systemPrompt |-> <<"{","a","}">>, userPrompt |-> <<>>,
      variables |-> << <<<<"a">>, <<"x">>>> >>]}

\* DEFAULT_APP_SETTINGS is {}: no default models
EmptyStorage ==
    [prompts |-> {}, configs |-> <<>>, activeModel |-> <<>>,
     appSettings |-> [defaultModels |-> Undefined]]

\* the application is not part of the specification
NoApplication ==
    /\ storage = EmptyStorage
    /\ app = NewApp
    /\ view = NewView
    /\ resolutions = <<>>
    /\ run = NoRun
    /\ api = <<>>
    /\ providers = NewProvidersView

(***************************************************************************)
(* The provider client besides the stream (ApiService.fetchModels,         *)
(* generate, testConnection).  A call is a record: the function, the       *)
(* configuration it was given, where it is suspended, the requests it has  *)
(* issued and, when it has returned, its result.                           *)
(***************************************************************************)
ModelsPath == <<"/","m","o","d","e","l","s">>

\* the address fetchModels requests
ModelsUrl(baseUrl) ==
    LET url == IF EndsWith(baseUrl, <<"/">>) THEN Slice(baseUrl, 0, Len(baseUrl) - 1)
               ELSE baseUrl
    IN  IF EndsWith(url, ChatCompletionsPath)
        THEN ReplaceFirst(url, ChatCompletionsPath, ModelsPath)
        ELSE url \o ModelsPath

\* the JSON texts of a models response
DataListPre == <<"{\"data\":[">>
ModelsListPre == <<"{\"models\":[">>
ListPost == <<"]}">>
IdItemPre == <<"{\"id\":\"">>
NameItemPre == <<"{\"name\":\"">>
ItemPost == <<"\"}">>
Comma == <<",">>

ModelsJsonSymbols ==
    {DataListPre[1], ModelsListPre[1], ListPost[1], IdItemPre[1], NameItemPre[1],
     ItemPost[1], Comma[1]}

\* an element of a list: null, or an object with an id or a name that holds no comma
ParseItem(text) ==
    LET inner == SubSeq(text, 2, Len(text) - 1)
        plain == IsPlainJsonString(inner)
                     /\ \A i \in 1..Len(inner) : inner[i] \notin ModelsJsonSymbols
    IN  IF text = JsonNull THEN [kind |-> "null", id |-> Undefined, name |-> Undefined]
        ELSE IF Len(text) >= 2 /\ text[Len(text)] = ItemPost[1] /\ plain
                /\ text[1] = IdItemPre[1]
        THEN [kind |-> "object", id |-> inner, name |-> Undefined]
        ELSE IF Len(text) >= 2 /\ text[Len(text)] = ItemPost[1] /\ plain
                /\ text[1] = NameItemPre[1]
        THEN [kind |-> "object", id |-> Undefined, name |-> inner]
        ELSE [kind |-> "SyntaxError", id |-> Undefined, name |-> Undefined]

\* the elements between the brackets of a list
ParseItems(text) ==
    IF text = <<>> THEN <<>>
    ELSE LET pieces == Split(text, Comma)
         IN  [i \in 1..Len(pieces) |-> ParseItem(pieces[i])]

\* await response.json() for the bodies of a models response: kind is
\* "object", "null" or "SyntaxError"; array names the field that holds a list
\* ("data", "models" or "none") and items is that list
ParseModels(body) ==
    LET items  == ParseItems(SubSeq(body, 2, Len(body) - 1))
        listed == Len(body) >= 2 /\ body[Len(body)] = ListPost[1]
                      /\ \A i \in 1..Len(items) : items[i].kind # "SyntaxError"
    IN  IF body = JsonNull THEN [kind |-> "null", array |-> "none", items |-> <<>>]
        ELSE IF body = EmptyObject THEN [kind |-> "object", array |-> "none", items |-> <<>>]
        ELSE IF listed /\ body[1] = DataListPre[1]
        THEN [kind |-> "object", array |-> "data", items |-> items]
        ELSE IF listed /\ body[1] = ModelsListPre[1]
        THEN [kind |-> "object", array |-> "models", items |-> items]
        ELSE [kind |-> "SyntaxError", array |-> "none", items |-> <<>>]

\* the characters the names of models are written with, in the order of their
\* code units
CodeUnits == <<"-",".","0","1","2","3","4","5","6","7","8","9",":","A","B","C","D","E","F","G","H","I","J","K","L","M","N","O","P","Q","R","S","T","U","V","W","X","Y","Z","_","a","b","c","d","e","f","g","h","i","j","k","l","m","n","o","p","q","r","s","t","u","v","w","x","y","z">>

CodeUnit(c) == CHOOSE i \in 1..Len(CodeUnits) : CodeUnits[i] = c

RECURSIVE Precedes(_, _)
\* whether the default comparison of sort puts a before b: undefined last,
\* strings by their code units
Precedes(a, b) ==
    IF a = Undefined THEN FALSE
    ELSE IF b = Undefined THEN TRUE
    ELSE IF b = <<>> THEN FALSE
    ELSE IF a = <<>> THEN TRUE
    ELSE IF Head(a) # Head(b) THEN CodeUnit(Head(a)) < CodeUnit(Head(b))
    ELSE Precedes(Tail(a), Tail(b))

\* the items left in the order of the response
SortKeepingOrder(items) == items

RECURSIVE Sort(_)
\* models.sort(): each item is placed after the items that do not follow it
Sort(items) ==
    IF items = <<>> THEN <<>>
    ELSE LET rest   == Sort(Tail(items))
             before == {i \in 0..Len(rest) : \A j \in 1..i : ~Precedes(Head(items), rest[j])}
             at     == CHOOSE i \in before : \A j \in before : j <= i
         IN  SubSeq(rest, 1, at) \o <<Head(items)>> \o SubSeq(rest, at + 1, Len(rest))

UnrecognizedResponseFormat == <<"U","n","r","e","c","o","g","n","i","z","e","d"," ","r","e","s","p","o","n","s","e"," ","f","o","r","m","a","t">>
\* the messages of the errors the engine throws
JsonSyntaxErrorMessage == <<"U","n","e","x","p","e","c","t","e","d"," ","t","o","k","e","n">>
NullDataMessage == <<"C","a","n","n","o","t"," ","r","e","a","d"," ","p","r","o","p","e","r","t","i","e","s"," ","o","f"," ","n","u","l","l"," ","(","r","e","a","d","i","n","g"," ","'","d","a","t","a","'",")">>
NullIdMessage == <<"C","a","n","n","o","t"," ","r","e","a","d"," ","p","r","o","p","e","r","t","i","e","s"," ","o","f"," ","n","u","l","l"," ","(","r","e","a","d","i","n","g"," ","'","i","d","'",")">>
NullNameMessage == <<"C","a","n","n","o","t"," ","r","e","a","d"," ","p","r","o","p","e","r","t","i","e","s"," ","o","f"," ","n","u","l","l"," ","(","r","e","a","d","i","n","g"," ","'","n","a","m","e","'",")">>

\* catch (e) of fetchModels: a result without a models field
ModelsFailure(message) == [success |-> FALSE, error |-> message]

\* fetchModels entered: the request is issued and the function is suspended
\* at await fetch(...)
FetchModelsStarted(config) ==
    [fn |-> "fetchModels", config |-> config, pc |-> "fetch", then |-> [by |-> "none"],
     requests |-> <<[method |-> "GET", url |-> ModelsUrl(config.baseUrl),
                     authorization |-> Authorization(config.apiKey)]>>,
     response |-> [kind |-> "none"], result |-> [success |-> FALSE]]

\* the result of fetchModels for the outcome of its request
FetchModelsResult(response) ==
    LET json == ParseModels(response.body)
    IN  IF response.kind = "rejected" THEN ModelsFailure(response.message)
        ELSE IF ~response.ok
        THEN ModelsFailure(HttpErrorPrefix \o Decimal(response.status))
        ELSE IF json.kind = "SyntaxError" THEN ModelsFailure(JsonSyntaxErrorMessage)
        ELSE IF json.kind = "null" THEN ModelsFailure(NullDataMessage)
        ELSE IF json.array = "data"
        THEN IF \E i \in 1..Len(json.items) : json.items[i].kind = "null"
             THEN ModelsFailure(NullIdMessage)
             ELSE [success |-> TRUE,
                   models |-> Sort([i \in 1..Len(json.items) |-> json.items[i].id])]
        ELSE IF json.array = "models"
        THEN IF \E i \in 1..Len(json.items) : json.items[i].kind = "null"
             THEN ModelsFailure(NullNameMessage)
             ELSE [success |-> TRUE,
                   models |-> Sort([i \in 1..Len(json.items) |-> json.items[i].name])]
        ELSE ModelsFailure(UnrecognizedResponseFormat)

\* fetchModels resumed with the outcome of fetch
FetchModelsSettled(c, response) ==
    [c EXCEPT !.pc = "done", !.response = response, !.result = FetchModelsResult(response)]

\* the JSON text of a completion
CompletionPre == <<"{\"choices\":[{\"message\":{\"content\":\"">>
CompletionPost == <<"\"}}]}">>

\* await response.json() followed by data.choices?.[0]?.message?.content, for
\* the bodies of a completion: kind is "object", "null" (data.choices then
\* throws a TypeError) or "SyntaxError"
ParseCompletion(body) ==
    LET inner == SubSeq(body, 2, Len(body) - 1)
    IN  IF body = JsonNull THEN [kind |-> "null", content |-> Undefined]
        ELSE IF body = EmptyObject THEN [kind |-> "object", content |-> Undefined]
        ELSE IF Len(body) >= 2 /\ body[1] = CompletionPre[1]
                /\ body[Len(body)] = CompletionPost[1] /\ IsPlainJsonString(inner)
                /\ \A i \in 1..Len(inner) : inner[i] \notin {CompletionPre[1], CompletionPost[1]}
        THEN [kind |-> "object", content |-> inner]
        ELSE [kind |-> "SyntaxError", content |-> Undefined]

UnknownErrorMessage == <<"U","n","k","n","o","w","n"," ","e","r","r","o","r"," ","o","c","c","u","r","r","e","d"," ","d","u","r","i","n","g"," ","A","P","I"," ","c","a","l","l",".">>
NullChoicesMessage == <<"C","a","n","n","o","t"," ","r","e","a","d"," ","p","r","o","p","e","r","t","i","e","s"," ","o","f"," ","n","u","l","l"," ","(","r","e","a","d","i","n","g"," ","'","c","h","o","i","c","e","s","'",")">>
NoModelsConfigured == <<"N","o"," ","m","o","d","e","l","s"," ","c","o","n","f","i","g","u","r","e","d">>
Connected == <<"C","o","n","n","e","c","t","e","d">>
Hi == <<"H","i">>

\* the target that always gets the completion path appended
GenerateUrlAlwaysAppending(baseUrl) ==
    LET url == IF EndsWith(baseUrl, <<"/">>) THEN Slice(baseUrl, 0, Len(baseUrl) - 1) ELSE baseUrl
    IN  url \o ChatCompletionsPath

\* the request target as generate computes it
GenerateUrl(baseUrl) ==
    LET url == IF EndsWith(baseUrl, <<"/">>) THEN Slice(baseUrl, 0, Len(baseUrl) - 1) ELSE baseUrl
    IN  IF ~EndsWith(url, ChatCompletionsPath) THEN url \o ChatCompletionsPath ELSE url

\* the request of generate: no stream field, a fixed temperature
GenerateRequest(config, model, messages) ==
    [method |-> "POST", url |-> GenerateUrl(config.baseUrl),
     authorization |-> Authorization(config.apiKey),
     model |-> model, messages |-> messages, stream |-> FALSE]

\* catch (error) of generate
GenerateFailure(message) ==
    [content |-> <<>>, usage |-> Undefined, error |-> OrElse(message, UnknownErrorMessage)]

\* the result of generate for the outcome of its request
GenerateResult(response) ==
    LET json == ParseCompletion(response.body)
    IN  IF response.kind = "rejected" THEN GenerateFailure(response.message)
        ELSE IF ~response.ok
        THEN GenerateFailure(HttpFailureMessage(response.body, response.status))
        ELSE IF json.kind = "SyntaxError" THEN GenerateFailure(JsonSyntaxErrorMessage)
        ELSE IF json.kind = "null" THEN GenerateFailure(NullChoicesMessage)
        ELSE [content |-> OrEmpty(json.content), usage |-> Undefined, error |-> Undefined]

\* testConnection that asks the provider whatever the models list holds
TestConnectionStartedWithoutValidation(config, then) ==
    [fn |-> "testConnection", config |-> config, pc |-> "fetch", then |-> then,
     requests |-> <<GenerateRequest(config, At(config.models, 1),
                                    <<[role |-> "user", content |-> Hi]>>)>>,
     response |-> [kind |-> "none"],
     generated |-> [error |-> Undefined],
     result |-> [success |-> FALSE, message |-> <<>>]]

\* testConnection entered: it returns at once when no model is configured, and
\* is suspended at the await fetch(...) of generate otherwise; then is what
\* the caller does with the result
TestConnectionStarted(config, then) ==
    IF Len(config.models) = 0
    THEN [fn |-> "testConnection", config |-> config, pc |-> "done", then |-> then,
          requests |-> <<>>, response |-> [kind |-> "none"],
          generated |-> [error |-> Undefined],
          result |-> [success |-> FALSE, message |-> NoModelsConfigured]]
    ELSE [fn |-> "testConnection", config |-> config, pc |-> "fetch", then |-> then,
          requests |-> <<GenerateRequest(config, config.models[1],
                                         <<[role |-> "user", content |-> Hi]>>)>>,
          response |-> [kind |-> "none"],
          generated |-> [error |-> Undefined],
          result |-> [success |-> FALSE, message |-> <<>>]]

\* testConnection that takes an answer without content for a failure
TestConnectionResultRequiringContent(result) ==
    IF Truthy(result.error) THEN [success |-> FALSE, message |-> result.error]
    ELSE IF result.content = <<>> THEN [success |-> FALSE, message |-> <<>>]
    ELSE [success |-> TRUE, message |-> Connected]

\* what testConnection returns for the result of generate
TestConnectionResult(result) ==
    IF Truthy(result.error) THEN [success |-> FALSE, message |-> result.error]
    ELSE [success |-> TRUE, message |-> Connected]

\* testConnection resumed with the outcome of the fetch of generate
TestConnectionSettled(c, response) ==
    [c EXCEPT !.pc = "done", !.response = response,
              !.generated = GenerateResult(response),
              !.result = TestConnectionResult(GenerateResult(response))]

(***************************************************************************)
(* Specification of one invocation of generateStream whose consumer asks   *)
(* for every increment.                                                    *)
(***************************************************************************)
InitStream ==
    /\ call = NoCall
    /\ NoApplication
    /\ \E config \in StreamConfigs :
           gen = GeneratorStarted(config, config.models[1], <<>>)

\* await fetch(...) settles
FetchSettles ==
    /\ gen.pc = "fetch"
    /\ \E response \in StreamResponses : gen' = AfterFetch(gen, response)
    /\ UNCHANGED <<call, uiVars>>

\* await fetch(...) settles with a short answer whose lines carry usage
FetchSettlesWithUsage ==
    /\ gen.pc = "fetch"
    /\ \E response \in UsageResponses : gen' = AfterFetch(gen, response)
    /\ UNCHANGED <<call, uiVars>>

\* await reader.read() gives the next chunk, cut anywhere in what is left
ReadChunk ==
    /\ gen.pc = "read"
    /\ \E n \in 1..Len(gen.wire) : gen' = AfterChunk(gen, n)
    /\ UNCHANGED <<call, uiVars>>

\* await reader.read() gives done
ReadDone ==
    /\ gen.pc = "read" /\ gen.wire = <<>>
    /\ gen' = AfterDone(gen)
    /\ UNCHANGED <<call, uiVars>>

\* await reader.read() rejects
ReadFails ==
    /\ gen.pc = "read"
    /\ \E message \in TransportMessages : gen' = AfterReadFailure(gen, message)
    /\ UNCHANGED <<call, uiVars>>

NextStream == FetchSettles \/ ReadChunk \/ ReadDone \/ ReadFails

SpecStream == InitStream /\ [][NextStream]_vars

(***************************************************************************)
(* Specification of the pure functions: the initial state holds the        *)
(* arguments of one call, and the step of the function called computes     *)
(* its result.                                                             *)
(***************************************************************************)

\* a call that has not returned yet
PendingCall(fn, text, variables) ==
    [fn |-> fn, text |-> text, variables |-> variables, returned |-> FALSE, result |-> <<>>]

InitPure ==
    /\ gen = NoGenerator
    /\ NoApplication
    /\ \/ \E text \in Templates, variables \in Mappings :
              call = PendingCall("resolveVariables", text, variables)
       \/ \E output \in OutputTexts :
              call = PendingCall("parsedOutput", output, <<>>)
       \/ \E combined \in ScannedTexts :
              call = PendingCall("detectedVariables", combined, <<>>)

CallResolveVariables ==
    /\ call.fn = "resolveVariables" /\ ~call.returned
    /\ call' = [call EXCEPT !.returned = TRUE,
                         !.result = resolveVariables(call.text, call.variables)]
    /\ UNCHANGED <<gen, uiVars>>

CallParsedOutput ==
    /\ call.fn = "parsedOutput" /\ ~call.returned
    /\ call' = [call EXCEPT !.returned = TRUE, !.result = parsedOutput(call.text)]
    /\ UNCHANGED <<gen, uiVars>>

CallDetectedVariables ==
    /\ call.fn = "detectedVariables" /\ ~call.returned
    /\ call' = [call EXCEPT !.returned = TRUE, !.result = detectedVariables(call.text)]
    /\ UNCHANGED <<gen, uiVars>>

NextPure == CallResolveVariables \/ CallParsedOutput \/ CallDetectedVariables

SpecPure == InitPure /\ [][NextPure]_vars

(***************************************************************************)
(* Handlers.                                                               *)
(***************************************************************************)
\* Sidebar: onChangeView
onChangeView ==
    /\ ~view.showOverwriteModal
    /\ \E v \in View \ {app.currentView} :
           Handled([World EXCEPT !.app.currentView = v])
    /\ UNCHANGED <<call, gen, run, api, providers>>

\* the system template field: onChange
ChangeSystemPrompt ==
    /\ Shown
    /\ \E text \in EditorTexts \ {view.systemPrompt} :
           Handled([World EXCEPT !.view.systemPrompt = text])
    /\ UNCHANGED <<call, gen, run, api, providers>>

\* the user template field: onChange
ChangeUserPrompt ==
    /\ Shown
    /\ \E text \in EditorTexts \ {view.userPrompt} :
           Handled([World EXCEPT !.view.userPrompt = text])
    /\ UNCHANGED <<call, gen, run, api, providers>>

\* the field of a detected variable: onChange
ChangeVariable ==
    /\ Shown
    /\ \E v \in Range(Rendered(World).detectedVariables), val \in EditorValues :
           /\ val # OrEmpty(Lookup(view.variables, v))
           /\ Handled([World EXCEPT !.view.variables = SetVariable(@, v, val),
                                    !.set = {"variables"}])
    /\ UNCHANGED <<call, gen, run, api, providers>>

\* a selector whose change reaches the request of the generator
handleModelChangeReachingRequest ==
    /\ Shown
    /\ \E c \in 1..Len(view.configs) :
           \E m \in 1..Len(view.configs[c].models) :
               LET newKey == ModelKey(view.configs[c].id, view.configs[c].models[m])
               IN  /\ newKey # view.selectedModelKey
                   /\ Handled([World EXCEPT !.view.selectedModelKey = newKey,
                                            !.storage.activeModel = newKey])
                   /\ gen' = IF gen.pc = "none" THEN gen
                             ELSE [gen EXCEPT !.request.model = view.configs[c].models[m]]
    /\ UNCHANGED <<call, run, api, providers>>

\* the model selector: onChange with one of the rendered options
handleModelChange ==
    /\ Shown
    /\ \E c \in 1..Len(view.configs) :
           \E m \in 1..Len(view.configs[c].models) :
               LET newKey == ModelKey(view.configs[c].id, view.configs[c].models[m])
               IN  /\ newKey # view.selectedModelKey
                   /\ Handled([World EXCEPT !.view.selectedModelKey = newKey,
                                            !.storage.activeModel = newKey])
    /\ UNCHANGED <<call, gen, run, api, providers>>

\* a memo that keeps the kind of the first text it was given
MemoizedFromFirstText(before, after) ==
    IF after.output = before.output THEN after
    ELSE IF before.output # <<>> /\ before.parsedOutput.thought = Null
    THEN [after EXCEPT !.parsedOutput = [thought |-> Null, content |-> after.output]]
    ELSE [after EXCEPT !.parsedOutput = parsedOutput(after.output)]

\* useMemo(..., [output]): the split is computed again by the render that
\* follows a change of output, and kept by the others
Memoized(before, after) ==
    IF after.output = before.output THEN after
    ELSE [after EXCEPT !.parsedOutput = parsedOutput(after.output)]

NoProviderSelected == <<"N","o"," ","p","r","o","v","i","d","e","r"," ","s","e","l","e","c","t","e","d">>

\* handleRun up to the request of the generator it starts
handleRun ==
    /\ Shown
    /\ LET parts      == Split(view.selectedModelKey, <<":">>)
           providerId == At(parts, 1)
           modelName  == At(parts, 2)
           config     == FindIndex(view.configs, providerId)
           res        == Resolution("run", view.systemPrompt, view.userPrompt, view.variables)
           messages   == <<[role |-> "system", content |-> res.finalSystem],
                           [role |-> "user", content |-> res.finalUser]>>
           loading    == Memoized(view, [view EXCEPT !.isLoading = TRUE, !.error = Null,
                                                     !.output = <<>>, !.usage = Null])
       IN  IF Trim(view.systemPrompt) = <<>> /\ Trim(view.userPrompt) = <<>>
           THEN UNCHANGED <<view, resolutions, gen, run>>
           ELSE IF config = 0
                THEN /\ view' = [loading EXCEPT !.error = NoProviderSelected,
                                                !.isLoading = FALSE]
                     /\ resolutions' = <<>>
                     /\ UNCHANGED <<gen, run>>
                ELSE /\ view' = loading
                     /\ resolutions' = <<res>>
                     /\ gen' = GeneratorStarted(view.configs[config], modelName, messages)
                     /\ run' = [NoRun EXCEPT !.pc = "loop"]
    /\ UNCHANGED <<call, app, storage, api, providers>>

\* the loop left at an error increment without the finally clause
ForAwaitChunkWithoutFinally ==
    /\ run.pc = "loop" /\ run.taken < Len(gen.yielded)
    /\ LET chunk       == gen.yielded[run.taken + 1]
           fullContent == IF Truthy(chunk.content) THEN run.fullContent \o chunk.content
                          ELSE run.fullContent
       IN  IF Truthy(chunk.error)
           THEN /\ view' = [view EXCEPT !.error = chunk.error]
                /\ run' = [run EXCEPT !.pc = "finished", !.taken = @ + 1]
           ELSE /\ view' = Memoized(view,
                              [view EXCEPT !.output = IF Truthy(chunk.content)
                                                      THEN fullContent ELSE @,
                                           !.usage = IF Truthy(chunk.usage)
                                                     THEN chunk.usage ELSE @])
                /\ run' = [run EXCEPT !.fullContent = fullContent, !.taken = @ + 1]
    /\ UNCHANGED <<call, gen, app, storage, resolutions, api, providers>>

\* the loop that shows an error increment in place of the output and the usage
ForAwaitChunkErrorReplacingOutput ==
    /\ run.pc = "loop" /\ run.taken < Len(gen.yielded)
    /\ LET chunk       == gen.yielded[run.taken + 1]
           fullContent == IF Truthy(chunk.content) THEN run.fullContent \o chunk.content
                          ELSE run.fullContent
       IN  IF Truthy(chunk.error)
           THEN /\ view' = Memoized(view,
                              [view EXCEPT !.error = chunk.error, !.isLoading = FALSE,
                                           !.output = <<>>, !.usage = Null])
                /\ run' = [run EXCEPT !.pc = "finished", !.taken = @ + 1]
           ELSE /\ view' = Memoized(view,
                              [view EXCEPT !.output = IF Truthy(chunk.content)
                                                      THEN fullContent ELSE @,
                                           !.usage = IF Truthy(chunk.usage)
                                                     THEN chunk.usage ELSE @])
                /\ run' = [run EXCEPT !.fullContent = fullContent, !.taken = @ + 1]
    /\ UNCHANGED <<call, gen, app, storage, resolutions, api, providers>>

\* handleRun: one pass of the body of its loop, with the increment the
\* generator yields next; an error increment leaves the loop, and the finally
\* clause follows
ForAwaitChunk ==
    /\ run.pc = "loop" /\ run.taken < Len(gen.yielded)
    /\ LET chunk       == gen.yielded[run.taken + 1]
           fullContent == IF Truthy(chunk.content) THEN run.fullContent \o chunk.content
                          ELSE run.fullContent
       IN  IF Truthy(chunk.error)
           THEN /\ view' = [view EXCEPT !.error = chunk.error, !.isLoading = FALSE]
                /\ run' = [run EXCEPT !.pc = "finished", !.taken = @ + 1]
           ELSE /\ view' = Memoized(view,
                              [view EXCEPT !.output = IF Truthy(chunk.content)
                                                      THEN fullContent ELSE @,
                                           !.usage = IF Truthy(chunk.usage)
                                                     THEN chunk.usage ELSE @])
                /\ run' = [run EXCEPT !.fullContent = fullContent, !.taken = @ + 1]
    /\ UNCHANGED <<call, gen, app, storage, resolutions, api, providers>>

\* handleRun: the generator is done, the loop ends and the finally clause follows
ForAwaitDone ==
    /\ run.pc = "loop" /\ run.taken = Len(gen.yielded) /\ gen.pc = "done"
    /\ view' = [view EXCEPT !.isLoading = FALSE]
    /\ run' = [run EXCEPT !.pc = "finished"]
    /\ UNCHANGED <<call, gen, app, storage, resolutions, api, providers>>

\* handleCopyFullPrompt
handleCopyFullPrompt ==
    /\ Shown
    /\ resolutions' = <<Resolution("copy", view.systemPrompt, view.userPrompt, view.variables)>>
    /\ UNCHANGED <<call, gen, run, api, providers, app, storage, view>>

\* StorageService.savePrompt
savePrompt(prompts, prompt) == {p \in prompts : p.id # prompt.id} \cup {prompt}

\* executeSave with the id decided by the save dialog: null for a new prompt
executeSave ==
    /\ Shown
    /\ \E idToUse \in {Null} \cup {p.id : p \in storage.prompts} :
           \E finalId \in (IF idToUse # Null THEN {idToUse}
                           ELSE PromptIds \ {p.id : p \in storage.prompts}) :
               LET newPrompt == [id |-> finalId, systemPrompt |-> view.systemPrompt,
                                 userPrompt |-> view.userPrompt,
                                 variables |-> view.variables]
               IN  Handled([World EXCEPT !.storage.prompts = savePrompt(@, newPrompt),
                                         !.view.currentId = finalId])
    /\ UNCHANGED <<call, gen, run, api, providers>>

\* LibraryView onEdit: App.handleEditPrompt
handleEditPrompt ==
    /\ app.currentView = "manage"
    /\ \E prompt \in storage.prompts :
           Handled([World EXCEPT !.app.promptToEdit = prompt,
                                 !.app.currentView = "debug"])
    /\ UNCHANGED <<call, gen, run, api, providers>>

\* the overwrite dialog: onConfirm
OverwriteConfirm ==
    /\ view.showOverwriteModal
    /\ LET loaded == IF view.pendingPrompt.id # Null
                     THEN loadPrompt(World, view.pendingPrompt) ELSE World
       IN  Handled([loaded EXCEPT !.view.showOverwriteModal = FALSE,
                                  !.view.pendingPrompt = NoPrompt])
    /\ UNCHANGED <<call, gen, run, api, providers>>

\* the overwrite dialog: onCancel and onNeutral
OverwriteCancel ==
    /\ view.showOverwriteModal
    /\ Handled([World EXCEPT !.view.showOverwriteModal = FALSE,
                             !.view.pendingPrompt = NoPrompt,
                             !.app.promptToEdit = NoPrompt])
    /\ UNCHANGED <<call, gen, run, api, providers>>

RECURSIVE MergedPrompts(_, _)
\* newPrompts.forEach(p => promptMap.set(p.id, p)) over the stored prompts
MergedPrompts(prompts, newPrompts) ==
    IF newPrompts = <<>> THEN prompts
    ELSE MergedPrompts(savePrompt(prompts, Head(newPrompts)), Tail(newPrompts))

\* the storage after StorageService.importData(file): a file is the value
\* JSON.parse gives, its appSettings the empty sequence when it has none
Imported(stored, file) ==
    IF ~Truthy(file.version) THEN stored
    ELSE [stored EXCEPT !.prompts = MergedPrompts(@, file.prompts),
                        !.configs = file.providers,
                        !.appSettings = IF file.appSettings # <<>>
                                        THEN file.appSettings[1] ELSE @]

\* the files imported while the editor is worked with: one prompt, and the
\* provider of the editor
EditorFiles ==
    {[version |-> <<"1">>, prompts |-> <<prompt>>, providers |-> <<config>>,
      appSettings |-> <<>>] : prompt \in ImportedPrompts, config \in StreamConfigs}

\* SettingsView confirmImport with the file chosen before
importData ==
    /\ app.currentView = "settings"
    /\ \E file \in EditorFiles : storage' = Imported(storage, file)
    /\ resolutions' = <<>>
    /\ UNCHANGED <<call, gen, run, api, providers, app, view>>

\* ProvidersView handleSave with a valid form, for a new or a listed provider
ProvidersHandleSave ==
    /\ app.currentView = "providers"
    /\ \E id \in ProviderIds, models \in ModelLists :
           LET existingIndex == FindIndex(storage.configs, id)
               form          == Provider(id, models)
               newConfigs    == IF existingIndex > 0
                                THEN [storage.configs EXCEPT ![existingIndex] = form]
                                ELSE Append(storage.configs, form)
           IN  /\ newConfigs # storage.configs
               /\ storage' = [storage EXCEPT !.configs = newConfigs]
    /\ resolutions' = <<>>
    /\ UNCHANGED <<call, gen, run, api, providers, app, view>>

\* ProvidersView confirmDelete
ProvidersConfirmDelete ==
    /\ app.currentView = "providers"
    /\ \E deleteId \in {storage.configs[i].id : i \in 1..Len(storage.configs)} :
           storage' = [storage EXCEPT !.configs = SelectSeq(@, LAMBDA c : c.id # deleteId)]
    /\ resolutions' = <<>>
    /\ UNCHANGED <<call, gen, run, api, providers, app, view>>

(***************************************************************************)
(* Specification of the model selection: providers are saved and deleted,  *)
(* the editor is shown again, a model is selected, a run is started.       *)
(***************************************************************************)
InitSelect ==
    /\ call = NoCall
    /\ gen = NoGenerator
    /\ run = NoRun
    /\ api = <<>>
    /\ providers = NewProvidersView
    /\ \E id \in ProviderIds, models \in ModelLists :
           LET w == Mounted([EmptyStorage EXCEPT !.configs = <<Provider(id, models)>>])
           IN  view = w.view /\ app = w.app /\ storage = w.storage /\ resolutions = w.resolutions

NextSelect ==
    \/ onChangeView
    \/ ChangeSystemPrompt
    \/ handleModelChange
    \/ handleRun
    \/ ProvidersHandleSave
    \/ ProvidersConfirmDelete

SpecSelect == InitSelect /\ [][NextSelect]_vars

(***************************************************************************)
(* Specification of the editor: templates and variables are edited,        *)
(* prompts are saved, imported and loaded, the templates are resolved.        *)
(***************************************************************************)
InitEditor ==
    /\ call = NoCall
    /\ gen = NoGenerator
    /\ run = NoRun
    /\ api = <<>>
    /\ providers = NewProvidersView
    /\ \E config \in StreamConfigs :
           LET w == Mounted([EmptyStorage EXCEPT !.configs = <<config>>])
           IN  view = w.view /\ app = w.app /\ storage = w.storage /\ resolutions = w.resolutions

NextEditor ==
    \/ onChangeView
    \/ ChangeSystemPrompt
    \/ ChangeUserPrompt
    \/ ChangeVariable
    \/ handleCopyFullPrompt
    \/ handleRun
    \/ executeSave
    \/ handleEditPrompt
    \/ OverwriteConfirm
    \/ OverwriteCancel
    \/ importData

SpecEditor == InitEditor /\ [][NextEditor]_vars

(***************************************************************************)
(* Specification of the provider client: one call of fetchModels or of     *)
(* testConnection, and the outcome of its request.                         *)
(***************************************************************************)
Host == <<"h","t","t","p",":","/","/","h">>
V1 == <<"/","v","1">>

\* base addresses: plain, with a trailing slash, with the completion path at
\* the end, and with the completion path earlier in the path
BaseUrls ==
    {Host \o V1, Host \o V1 \o <<"/">>,
     Host \o V1 \o ChatCompletionsPath, Host \o V1 \o ChatCompletionsPath \o <<"/">>,
     Host \o ChatCompletionsPath \o V1,
     Host \o ChatCompletionsPath \o V1 \o ChatCompletionsPath}

ApiConfigs ==
    {[id |-> <<"p">>, baseUrl |-> baseUrl, apiKey |-> apiKey, models |-> models] :
        baseUrl \in BaseUrls, apiKey \in {<<>>, <<"k">>},
        models \in {<<>>, <<<<"m">>>>, <<<<"n">>, <<"m">>>>}}

\* a success response with a JSON body
JsonResponse(body) ==
    [kind |-> "http", ok |-> TRUE, status |-> 200, hasBody |-> TRUE,
     lines |-> <<>>, finalNewline |-> FALSE, body |-> body, message |-> <<>>]

BadGateway == <<"B","a","d"," ","G","a","t","e","w","a","y">>

\* the items of a models response: three names and null
ModelItems(pre) ==
    {pre \o name \o ItemPost : name \in {<<"b">>, <<"a","b">>, <<"B">>}} \cup {JsonNull}

\* the two list formats with at most MaxModels items, an object without a
\* list, null, and a body that is no JSON
ModelsBodies ==
    UNION {{format[1] \o Join(items, Comma) \o ListPost :
               items \in SeqsUpTo(ModelItems(format[2]), MaxModels)} :
           format \in {<<DataListPre, IdItemPre>>, <<ModelsListPre, NameItemPre>>}}
    \cup {EmptyObject, JsonNull, BadGateway}

ModelsResponses ==
    {JsonResponse(body) : body \in ModelsBodies}
    \cup {FailureResponse(status, BadGateway) : status \in FailureStatuses}
    \cup {RejectedFetch(message) : message \in TransportMessages}

CompletionBodies ==
    {CompletionPre \o Hel \o CompletionPost, CompletionPre \o CompletionPost,
     EmptyObject, JsonNull, BadGateway}

CompletionResponses ==
    {JsonResponse(body) : body \in CompletionBodies}
    \cup {FailureResponse(401, ErrorMessagePre \o <<"b","a","d"," ","k","e","y">> \o ErrorMessagePost),
          FailureResponse(500, BadGateway)}
    \cup {RejectedFetch(message) : message \in TransportMessages}

\* runTest resumed with a result that is set in place of the results there are
RunTestResumedFromNothing(p, c) ==
    [p EXCEPT !.testResults =
        <<<<c.config.id, [status |-> IF c.result.success THEN "success" ELSE "error",
                          message |-> c.result.message]>>>>]

\* runTest resumed with the result of testConnection
RunTestResumed(p, c) ==
    [p EXCEPT !.testResults =
        SetVariable(@, c.config.id,
                    [status |-> IF c.result.success THEN "success" ELSE "error",
                     message |-> c.result.message])]

\* whether a call made for handleTestAll has not returned
JoinPending(calls) ==
    \E i \in 1..Len(calls) : calls[i].then.by = "handleTestAll" /\ calls[i].pc # "done"

\* what the caller of a call that has returned does with the result: runTest
\* sets the test result, and handleTestAll, once all its calls have returned,
\* clears the flag
Resumed(p, calls, c) ==
    IF c.then.by = "none" THEN p
    ELSE IF c.then.by = "handleTestAll" /\ ~JoinPending(calls)
    THEN [RunTestResumed(p, c) EXCEPT !.isGlobalTesting = FALSE]
    ELSE RunTestResumed(p, c)

\* a caller calls fetchModels
CallFetchModels ==
    /\ api = <<>>
    /\ \E config \in ApiConfigs : api' = <<FetchModelsStarted(config)>>
    /\ UNCHANGED <<call, gen, storage, app, view, resolutions, run, providers>>

\* await fetch(modelsUrl, ...) settles
FetchModelsSettles ==
    /\ \E i \in 1..Len(api) :
           /\ api[i].fn = "fetchModels" /\ api[i].pc = "fetch"
           /\ \E response \in ModelsResponses :
                  api' = [api EXCEPT ![i] = FetchModelsSettled(@, response)]
    /\ UNCHANGED <<call, gen, storage, app, view, resolutions, run, providers>>

\* a caller calls testConnection
CallTestConnection ==
    /\ api = <<>>
    /\ \E config \in ApiConfigs : api' = <<TestConnectionStarted(config, [by |-> "none"])>>
    /\ UNCHANGED <<call, gen, storage, app, view, resolutions, run, providers>>

\* the await fetch(url, ...) of generate settles, testConnection returns and
\* its caller goes on
TestConnectionSettles ==
    /\ \E i \in 1..Len(api) :
           /\ api[i].fn = "testConnection" /\ api[i].pc = "fetch"
           /\ \E response \in CompletionResponses :
                  LET calls == [api EXCEPT ![i] = TestConnectionSettled(@, response)]
                  IN  /\ api' = calls
                      /\ providers' = Resumed(providers, calls, calls[i])
    /\ UNCHANGED <<call, gen, storage, app, view, resolutions, run>>

InitApi ==
    /\ call = NoCall
    /\ gen = NoGenerator
    /\ NoApplication

NextApi ==
    \/ CallFetchModels
    \/ FetchModelsSettles
    \/ CallTestConnection
    \/ TestConnectionSettles

SpecApi == InitApi /\ [][NextApi]_vars

(***************************************************************************)
(* Specification of the connection tests of ProvidersView: the test of one *)
(* configuration, Test All, and the outcomes of their requests in any      *)
(* order.                                                                  *)
(***************************************************************************)
Testing == <<"T","e","s","t","i","n","g",".",".",".">>

\* the configurations ProvidersView lists: distinct identifiers, with or
\* without a model
TestedConfigs ==
    UNION {[1..n -> {<<>>, <<<<"m">>>>}] : n \in 0..MaxTested}

TestedConfig(i, models) ==
    [id |-> <<"p">> \o Decimal(i), baseUrl |-> OpenAiUrl, apiKey |-> <<"k">>,
     models |-> models]

\* runTest up to its await: the result is 'loading' and testConnection is called
RunTestStarted(w, config, then) ==
    [providers |-> [w.providers EXCEPT !.testResults =
                        SetVariable(@, config.id, [status |-> "loading", message |-> Testing])],
     api |-> Append(w.api, TestConnectionStarted(config, then))]

RECURSIVE RunTestStartedForAll(_, _, _)
\* configs.map(async (config) => { await runTest(config) }) up to the awaits
RunTestStartedForAll(w, configs, then) ==
    IF configs = <<>> THEN w
    ELSE RunTestStartedForAll(RunTestStarted(w, Head(configs), then), Tail(configs), then)

RECURSIVE ResumedAfter(_, _, _)
\* the callers of the calls after the first n that returned without a request
ResumedAfter(p, calls, n) ==
    IF n >= Len(calls) THEN p
    ELSE ResumedAfter(IF calls[n + 1].pc = "done" THEN Resumed(p, calls, calls[n + 1]) ELSE p,
                      calls, n + 1)

\* the test button of a configuration, enabled unless its status is 'loading'
runTest ==
    /\ Len(api) < MaxCalls
    /\ \E c \in 1..Len(providers.configs) :
           /\ HasKey(providers.testResults, providers.configs[c].id)
                  => Lookup(providers.testResults, providers.configs[c].id).status # "loading"
           /\ \E started \in {RunTestStarted([providers |-> providers, api |-> api],
                                             providers.configs[c], [by |-> "runTest"])} :
                  /\ api' = started.api
                  /\ providers' = ResumedAfter(started.providers, started.api, Len(api))
    /\ UNCHANGED <<call, gen, storage, app, view, resolutions, run>>

\* the Test All button, enabled unless isGlobalTesting; then.batch tells its
\* calls from those of another Test All
handleTestAll ==
    /\ ~providers.isGlobalTesting
    /\ Len(api) + Len(providers.configs) <= MaxCalls
    /\ \E started \in {RunTestStartedForAll(
                           [providers |-> [providers EXCEPT !.isGlobalTesting = TRUE],
                            api |-> api],
                           providers.configs,
                           [by |-> "handleTestAll", batch |-> Len(api)])} :
           /\ api' = started.api
           /\ providers' =
                  [ResumedAfter(started.providers, started.api, Len(api))
                      EXCEPT !.isGlobalTesting = JoinPending(started.api)]
    /\ UNCHANGED <<call, gen, storage, app, view, resolutions, run>>

InitProbes ==
    /\ call = NoCall
    /\ gen = NoGenerator
    /\ run = NoRun
    /\ api = <<>>
    /\ \E models \in TestedConfigs :
           LET configs == [i \in 1..Len(models) |-> TestedConfig(i, models[i])]
               w       == Mounted([EmptyStorage EXCEPT !.configs = configs])
           IN  /\ view = w.view /\ storage = w.storage /\ resolutions = w.resolutions
               /\ app = [w.app EXCEPT !.currentView = "providers"]
               /\ providers = [NewProvidersView EXCEPT !.configs = configs]

NextProbes == runTest \/ handleTestAll \/ TestConnectionSettles

SpecProbes == InitProbes /\ [][NextProbes]_vars

(***************************************************************************)
(* Specification of the runs of the editor: handleRun starts the generator *)
(* and consumes its increments while the generator reads the response.     *)
(* The user edits and starts a run while no run is loading.                *)
(***************************************************************************)
\* the fragments of an answer that opens with a reasoning block, the empty
\* fragment, and a whole reasoning block followed by a space
ThoughtFragments ==
    {<<>>, <<"<","t","h","i">>, <<"n","k",">","a">>, ThinkClose \o <<"b">>,
     ThinkOpen \o <<"a">> \o ThinkClose \o <<" ">>}

\* the success responses whose lines carry at most MaxFrames of these fragments
ThoughtResponses ==
    {StreamResponse(lines, TRUE) :
        lines \in SeqsUpTo({ContentLine(f) : f \in ThoughtFragments}, MaxFrames)}

\* await fetch(...) settles with an answer that may open with a reasoning block
FetchSettlesWithThought ==
    /\ gen.pc = "fetch"
    /\ \E response \in ThoughtResponses : gen' = AfterFetch(gen, response)
    /\ UNCHANGED <<call, uiVars>>

InitRun ==
    /\ call = NoCall
    /\ gen = NoGenerator
    /\ run = NoRun
    /\ api = <<>>
    /\ providers = NewProvidersView
    /\ \E config \in StreamConfigs :
           LET w == Mounted([EmptyStorage EXCEPT !.configs = <<config>>])
           IN  view = w.view /\ app = w.app /\ storage = w.storage /\ resolutions = w.resolutions

NextRun ==
    \/ (~view.isLoading /\ ChangeSystemPrompt)
    \/ (~view.isLoading /\ handleRun)
    \/ FetchSettlesWithThought
    \/ ReadChunk
    \/ ReadDone
    \/ ReadFails
    \/ ForAwaitChunk
    \/ ForAwaitDone

SpecRun == InitRun /\ [][NextRun]_vars

(***************************************************************************)
(* Specification of the provider form: the default models are set in the   *)
(* settings, a provider is added or edited, models are added to the form   *)
(* and removed from it, the provider's models are fetched, the form is     *)
(* saved.  The name and the address of the form are left as startNew and   *)
(* startEdit set them.                                                     *)
(***************************************************************************)
\* values of the default models field of the settings
DefaultModelsTexts ==
    {<<>>, <<"b">>, <<"b", ",", " ", "b">>, <<" ", "b", ",", ",", "m">>}

\* texts typed into the model name field of the form
TypedModelNames == {<<>>, <<" ", "b">>, <<"m">>}

\* the answers of the provider to the requests of the form: a list of two
\* names, a list that names a model twice, a failure
FormModelsResponses ==
    {JsonResponse(DataListPre \o Join(<<IdItemPre \o <<"B">> \o ItemPost,
                                        IdItemPre \o <<"b">> \o ItemPost>>, Comma) \o ListPost),
     JsonResponse(DataListPre \o Join(<<IdItemPre \o <<"b">> \o ItemPost,
                                        IdItemPre \o <<"b">> \o ItemPost>>, Comma) \o ListPost),
     FailureResponse(500, BadGateway)}

\* e.target.value.split(',').map(s => s.trim()).filter(Boolean)
DefaultModelsOf(text) ==
    LET parts == Split(text, <<",">>)
    IN  SelectSeq([i \in 1..Len(parts) |-> Trim(parts[i])], LAMBDA part : part # <<>>)

\* s.toLowerCase() for the letters of the model names
ToLowerCase(s) == [i \in 1..Len(s) |-> IF s[i] = "B" THEN "b" ELSE s[i]]

\* s.includes(p)
IncludesText(s, p) == \E i \in 0..(Len(s) - Len(p)) : SubSeq(s, i + 1, i + Len(p)) = p

\* the suggestions shown under the model name field
filteredAvailableModels(p) ==
    SelectSeq(SelectSeq(p.fetchedModels, LAMBDA fetched : fetched \notin Range(p.form.models)),
              LAMBDA fetched : IncludesText(ToLowerCase(fetched), ToLowerCase(p.newModelName)))

\* the calls of fetchModels whose caller is gone with its component
Abandoned(calls) ==
    [i \in 1..Len(calls) |-> [calls[i] EXCEPT !.then = [by |-> "none"]]]

\* Sidebar onChangeView to the settings: SettingsView is mounted, ProvidersView
\* is not rendered any more
ShowSettings ==
    /\ ~view.showOverwriteModal
    /\ app.currentView # "settings"
    /\ Handled([World EXCEPT !.app.currentView = "settings"])
    /\ providers' = NewProvidersView
    /\ api' = Abandoned(api)
    /\ UNCHANGED <<call, gen, run>>

\* Sidebar onChangeView to the providers: ProvidersView is mounted and loads
\* the configurations
ShowProviders ==
    /\ ~view.showOverwriteModal
    /\ app.currentView # "providers"
    /\ Handled([World EXCEPT !.app.currentView = "providers"])
    /\ providers' = [NewProvidersView EXCEPT !.configs = storage.configs]
    /\ UNCHANGED <<call, gen, run, api>>

\* the default models field of the settings: onChange
updateSetting ==
    /\ app.currentView = "settings"
    /\ \E text \in DefaultModelsTexts :
           /\ DefaultModelsOf(text) # storage.appSettings.defaultModels
           /\ storage' = [storage EXCEPT !.appSettings.defaultModels = DefaultModelsOf(text)]
    /\ resolutions' = <<>>
    /\ UNCHANGED <<call, gen, run, api, providers, app, view>>

\* fetchModelsForConfig and handleFetchModels up to their await
FetchModelsCalled(p, calls, config, by) ==
    [providers |-> [p EXCEPT !.isFetchingModels = TRUE, !.fetchedModels = <<>>],
     api |-> Append(calls, [FetchModelsStarted(config) EXCEPT !.then = [by |-> by]])]

\* fetchModelsForConfig and handleFetchModels after their await
FetchModelsResumed(p, c) ==
    IF c.then.by \notin {"fetchModelsForConfig", "handleFetchModels"} THEN p
    ELSE IF c.result.success
    THEN [p EXCEPT !.isFetchingModels = FALSE, !.fetchedModels = c.result.models]
    ELSE [p EXCEPT !.isFetchingModels = FALSE]

\* the Add Provider button
startNew ==
    /\ app.currentView = "providers"
    /\ \E id \in {<<"u","u","i","d">>} :
           providers' =
               [providers EXCEPT
                   !.form = [id |-> id, baseUrl |-> OpenAiUrl, apiKey |-> <<>>,
                             models |-> IF storage.appSettings.defaultModels = Undefined
                                        THEN <<>>
                                        ELSE storage.appSettings.defaultModels],
                   !.editingId = <<"n","e","w">>,
                   !.fetchedModels = <<>>,
                   !.newModelName = <<>>]
    /\ resolutions' = <<>>
    /\ UNCHANGED <<call, gen, run, api, storage, app, view>>

\* the edit button of a listed configuration
startEdit ==
    /\ app.currentView = "providers"
    /\ Cardinality({i \in 1..Len(api) : api[i].fn = "fetchModels"}) < MaxFetches
    /\ \E i \in 1..Len(providers.configs) :
           LET config == providers.configs[i]
               opened == [providers EXCEPT !.form = config, !.editingId = config.id,
                                           !.fetchedModels = <<>>, !.newModelName = <<>>]
               called == FetchModelsCalled(opened, api, config, "fetchModelsForConfig")
           IN  providers' = called.providers /\ api' = called.api
    /\ resolutions' = <<>>
    /\ UNCHANGED <<call, gen, run, storage, app, view>>

\* the Fetch button of the form
handleFetchModels ==
    /\ app.currentView = "providers" /\ providers.editingId # Null
    /\ ~providers.isFetchingModels
    /\ Cardinality({i \in 1..Len(api) : api[i].fn = "fetchModels"}) < MaxFetches
    /\ LET called == FetchModelsCalled(providers, api, providers.form, "handleFetchModels")
       IN  providers' = called.providers /\ api' = called.api
    /\ resolutions' = <<>>
    /\ UNCHANGED <<call, gen, run, storage, app, view>>

\* await ApiService.fetchModels(...) settles and its caller goes on
FetchModelsSettlesInForm ==
    /\ \E i \in 1..Len(api) :
           /\ api[i].fn = "fetchModels" /\ api[i].pc = "fetch"
           /\ \E response \in FormModelsResponses :
                  LET c == FetchModelsSettled(api[i], response)
                  IN  /\ api' = [api EXCEPT ![i] = c]
                      /\ providers' = FetchModelsResumed(providers, c)
    /\ UNCHANGED <<call, gen, storage, app, view, resolutions, run>>

\* the model name field of the form: onChange
ChangeNewModelName ==
    /\ app.currentView = "providers" /\ providers.editingId # Null
    /\ \E text \in TypedModelNames \ {providers.newModelName} :
           providers' = [providers EXCEPT !.newModelName = text]
    /\ resolutions' = <<>>
    /\ UNCHANGED <<call, gen, run, api, storage, app, view>>

\* the form after addModel(modelName)
Added(form, modelName) ==
    LET name == Trim(modelName)
    IN  IF name # <<>> /\ name \notin Range(form.models)
        THEN [form EXCEPT !.models = Append(@, name)]
        ELSE form

\* the + button and the Enter key of the model name field, and the button of
\* a suggestion
addModel ==
    /\ app.currentView = "providers" /\ providers.editingId # Null
    /\ Len(providers.form.models) < MaxFormModels
    /\ \E modelName \in {providers.newModelName} \cup Range(filteredAvailableModels(providers)) :
           providers' = [providers EXCEPT !.form = Added(@, modelName),
                                          !.newModelName = <<>>]
    /\ providers' # providers
    /\ resolutions' = <<>>
    /\ UNCHANGED <<call, gen, run, api, storage, app, view>>

\* the x button of a model of the form
removeModel ==
    /\ app.currentView = "providers" /\ providers.editingId # Null
    /\ \E modelToRemove \in Range(providers.form.models) :
           providers' = [providers EXCEPT
                            !.form.models = SelectSeq(@, LAMBDA model : model # modelToRemove)]
    /\ resolutions' = <<>>
    /\ UNCHANGED <<call, gen, run, api, storage, app, view>>

\* the Save Config button of the form, when the form has a model
handleSave ==
    /\ app.currentView = "providers" /\ providers.editingId # Null
    /\ providers.form.models # <<>>
    /\ LET form          == providers.form
           existingIndex == FindIndex(providers.configs, form.id)
       IN  /\ existingIndex > 0 \/ Len(providers.configs) < MaxConfigs
           /\ \E id \in ProviderIds \cup {form.id} :
                  /\ existingIndex > 0 => id = form.id
                  /\ existingIndex = 0 => /\ id \in ProviderIds
                                          /\ FindIndex(providers.configs, id) = 0
                  /\ LET newConfigs == IF existingIndex > 0
                                       THEN [providers.configs EXCEPT ![existingIndex] = form]
                                       ELSE Append(providers.configs, [form EXCEPT !.id = id])
                     IN  /\ storage' = [storage EXCEPT !.configs = newConfigs]
                         /\ providers' =
                                [providers EXCEPT
                                    !.configs = newConfigs,
                                    !.editingId = Null,
                                    !.fetchedModels = <<>>,
                                    !.testResults =
                                        SelectSeq(@, LAMBDA result : result[1] # form.id)]
    /\ resolutions' = <<>>
    /\ UNCHANGED <<call, gen, run, api, app, view>>

\* the Delete button of the confirmation asked for a listed configuration
confirmDelete ==
    /\ app.currentView = "providers"
    /\ \E deleteId \in {providers.configs[i].id : i \in 1..Len(providers.configs)} :
           LET newConfigs == SelectSeq(providers.configs, LAMBDA c : c.id # deleteId)
           IN  /\ storage' = [storage EXCEPT !.configs = newConfigs]
               /\ providers' = [providers EXCEPT !.configs = newConfigs]
    /\ resolutions' = <<>>
    /\ UNCHANGED <<call, gen, run, api, app, view>>

\* the close and the Cancel button of the form
CancelEdit ==
    /\ app.currentView = "providers" /\ providers.editingId # Null
    /\ providers' = [providers EXCEPT !.editingId = Null]
    /\ resolutions' = <<>>
    /\ UNCHANGED <<call, gen, run, api, storage, app, view>>

InitForm ==
    /\ call = NoCall
    /\ gen = NoGenerator
    /\ run = NoRun
    /\ api = <<>>
    /\ providers = NewProvidersView
    /\ \E models \in {<<<<"b">>>>, <<<<"m">>, <<"b">>>>} :
           LET w == Mounted([EmptyStorage EXCEPT !.configs = <<Provider(<<"p","1">>, models)>>])
           IN  view = w.view /\ app = w.app /\ storage = w.storage /\ resolutions = w.resolutions

NextForm ==
    \/ ShowSettings
    \/ ShowProviders
    \/ updateSetting
    \/ startNew
    \/ startEdit
    \/ handleFetchModels
    \/ FetchModelsSettlesInForm
    \/ ChangeNewModelName
    \/ addModel
    \/ removeModel
    \/ handleSave
    \/ confirmDelete
    \/ CancelEdit

SpecForm == InitForm /\ [][NextForm]_vars

(***************************************************************************)
(* Specification of the runs started from the keyboard.  The Run button is *)
(* disabled while a run is loading; the template fields stay enabled, and  *)
(* their key handler calls handleRun whatever the state of the last run.   *)
(* The loop of an invocation that is followed by another one goes on with  *)
(* its own generator and its own fullContent, and sets the same state.     *)
(***************************************************************************)
PleaseEnterPrompt == <<"P","l","e","a","s","e"," ","e","n","t","e","r"," ","a"," ","s","y","s","t","e","m"," ","o","r"," ","u","s","e","r"," ","p","r","o","m","p","t">>

\* the answers of the provider to the runs: lines with and without content
\* and usage, a failure status, a rejected fetch
RunResponses ==
    {StreamResponse(<<ContentUsageLine(lo, <<"9">>), DeltaLine>>, TRUE),
     StreamResponse(<<UsageLine(<<"7">>), ContentLine(Hel)>>, TRUE),
     StreamResponse(<<DeltaLine>>, TRUE),
     FailureResponse(500, BadGateway),
     RejectedFetch(<<>>)}

\* the loop of the invocation that is followed by another one
Superseded == [gen |-> gen, pc |-> run.pc, fullContent |-> run.fullContent, taken |-> run.taken]

\* handleRun that sets the loading flag before it looks at the templates
handleKeyDownLoadingFirst ==
    /\ Shown
    /\ LET parts      == Split(view.selectedModelKey, <<":">>)
           providerId == At(parts, 1)
           modelName  == At(parts, 2)
           config     == FindIndex(view.configs, providerId)
           res        == Resolution("run", view.systemPrompt, view.userPrompt, view.variables)
           messages   == <<[role |-> "system", content |-> res.finalSystem],
                           [role |-> "user", content |-> res.finalUser]>>
           loading    == Memoized(view, [view EXCEPT !.isLoading = TRUE, !.error = Null,
                                                     !.output = <<>>, !.usage = Null])
       IN  IF Trim(view.systemPrompt) = <<>> /\ Trim(view.userPrompt) = <<>>
           THEN /\ view' = [loading EXCEPT !.toast = PleaseEnterPrompt]
                /\ resolutions' = <<>>
                /\ UNCHANGED <<gen, run>>
           ELSE IF config = 0
                THEN /\ view' = [loading EXCEPT !.error = NoProviderSelected,
                                                !.isLoading = FALSE]
                     /\ resolutions' = <<>>
                     /\ UNCHANGED <<gen, run>>
                ELSE /\ run.pc = "loop" => Len(run.earlier) + 1 < MaxRuns
                     /\ view' = loading
                     /\ resolutions' = <<res>>
                     /\ gen' = GeneratorStarted(view.configs[config], modelName, messages)
                     /\ run' = [pc |-> "loop", fullContent |-> <<>>, taken |-> 0,
                                earlier |-> IF run.pc = "loop"
                                            THEN Append(run.earlier, Superseded)
                                            ELSE run.earlier]
    /\ UNCHANGED <<call, app, storage, api, providers>>

\* Ctrl+Enter or Cmd+Enter in a template field: handleRun, up to the request
\* of the generator it starts; toast is the toast it shows
handleKeyDown ==
    /\ Shown
    /\ LET parts      == Split(view.selectedModelKey, <<":">>)
           providerId == At(parts, 1)
           modelName  == At(parts, 2)
           config     == FindIndex(view.configs, providerId)
           res        == Resolution("run", view.systemPrompt, view.userPrompt, view.variables)
           messages   == <<[role |-> "system", content |-> res.finalSystem],
                           [role |-> "user", content |-> res.finalUser]>>
           loading    == Memoized(view, [view EXCEPT !.isLoading = TRUE, !.error = Null,
                                                     !.output = <<>>, !.usage = Null])
       IN  IF Trim(view.systemPrompt) = <<>> /\ Trim(view.userPrompt) = <<>>
           THEN /\ view' = [view EXCEPT !.toast = PleaseEnterPrompt]
                /\ resolutions' = <<>>
                /\ UNCHANGED <<gen, run>>
           ELSE IF config = 0
                THEN /\ view' = [loading EXCEPT !.error = NoProviderSelected,
                                                !.isLoading = FALSE]
                     /\ resolutions' = <<>>
                     /\ UNCHANGED <<gen, run>>
                ELSE /\ run.pc = "loop" => Len(run.earlier) + 1 < MaxRuns
                     /\ view' = loading
                     /\ resolutions' = <<res>>
                     /\ gen' = GeneratorStarted(view.configs[config], modelName, messages)
                     /\ run' = [pc |-> "loop", fullContent |-> <<>>, taken |-> 0,
                                earlier |-> IF run.pc = "loop"
                                            THEN Append(run.earlier, Superseded)
                                            ELSE run.earlier]
    /\ UNCHANGED <<call, app, storage, api, providers>>

\* await fetch(url, ...) of a run settles
FetchSettlesForRun ==
    /\ gen.pc = "fetch"
    /\ \E response \in RunResponses : gen' = AfterFetch(gen, response)
    /\ UNCHANGED <<call, uiVars>>

\* the sizes of the chunks that end with a line
LineEnds(wire) == {n \in 1..Len(wire) : wire[n] = "\n"}

\* await reader.read() of a run gives the next chunk: one line or more
ReadLines ==
    /\ gen.pc = "read"
    /\ \E n \in LineEnds(gen.wire) :
           \E resumed \in {AfterChunk(gen, n)} : gen' = resumed
    /\ UNCHANGED <<call, uiVars>>

\* await fetch(url, ...) of an earlier run settles
EarlierFetchSettles ==
    /\ \E i \in 1..Len(run.earlier) :
           /\ run.earlier[i].gen.pc = "fetch"
           /\ \E response \in RunResponses :
                  run' = [run EXCEPT !.earlier[i].gen = AfterFetch(@, response)]
    /\ UNCHANGED <<call, gen, storage, app, view, resolutions, api, providers>>

\* await reader.read() of an earlier run gives the next chunk: one line or more
EarlierReadLines ==
    /\ \E i \in 1..Len(run.earlier) :
           /\ run.earlier[i].gen.pc = "read"
           /\ \E n \in LineEnds(run.earlier[i].gen.wire) :
                  \E resumed \in {AfterChunk(run.earlier[i].gen, n)} :
                      run' = [run EXCEPT !.earlier[i].gen = resumed]
    /\ UNCHANGED <<call, gen, storage, app, view, resolutions, api, providers>>

\* await reader.read() of an earlier run gives done
EarlierReadDone ==
    /\ \E i \in 1..Len(run.earlier) :
           /\ run.earlier[i].gen.pc = "read" /\ run.earlier[i].gen.wire = <<>>
           /\ run' = [run EXCEPT !.earlier[i].gen = AfterDone(@)]
    /\ UNCHANGED <<call, gen, storage, app, view, resolutions, api, providers>>

\* await reader.read() of an earlier run rejects
EarlierReadFails ==
    /\ \E i \in 1..Len(run.earlier) :
           /\ run.earlier[i].gen.pc = "read"
           /\ \E message \in TransportMessages :
                  run' = [run EXCEPT !.earlier[i].gen = AfterReadFailure(@, message)]
    /\ UNCHANGED <<call, gen, storage, app, view, resolutions, api, providers>>

\* one pass of the body of the loop of an earlier run
EarlierForAwaitChunk ==
    /\ \E i \in 1..Len(run.earlier) :
           LET r == run.earlier[i]
           IN  /\ r.pc = "loop" /\ r.taken < Len(r.gen.yielded)
               /\ LET chunk       == r.gen.yielded[r.taken + 1]
                      fullContent == IF Truthy(chunk.content) THEN r.fullContent \o chunk.content
                                     ELSE r.fullContent
                  IN  IF Truthy(chunk.error)
                      THEN /\ view' = [view EXCEPT !.error = chunk.error, !.isLoading = FALSE]
                           /\ run' = [run EXCEPT !.earlier[i].pc = "finished",
                                                 !.earlier[i].taken = @ + 1]
                      ELSE /\ view' = Memoized(view,
                                         [view EXCEPT !.output = IF Truthy(chunk.content)
                                                                 THEN fullContent ELSE @,
                                                      !.usage = IF Truthy(chunk.usage)
                                                                THEN chunk.usage ELSE @])
                           /\ run' = [run EXCEPT !.earlier[i].fullContent = fullContent,
                                                 !.earlier[i].taken = @ + 1]
    /\ UNCHANGED <<call, gen, app, storage, resolutions, api, providers>>

\* the generator of an earlier run is done: its loop ends, finally follows
EarlierForAwaitDone ==
    /\ \E i \in 1..Len(run.earlier) :
           LET r == run.earlier[i]
           IN  /\ r.pc = "loop" /\ r.taken = Len(r.gen.yielded) /\ r.gen.pc = "done"
               /\ run' = [run EXCEPT !.earlier[i].pc = "finished"]
    /\ view' = [view EXCEPT !.isLoading = FALSE]
    /\ UNCHANGED <<call, gen, app, storage, resolutions, api, providers>>

NextKeys ==
    \/ handleKeyDown
    \/ ChangeSystemPrompt
    \/ FetchSettlesForRun
    \/ ReadLines
    \/ ReadDone
    \/ ReadFails
    \/ ForAwaitChunk
    \/ ForAwaitDone
    \/ EarlierFetchSettles
    \/ EarlierReadLines
    \/ EarlierReadDone
    \/ EarlierReadFails
    \/ EarlierForAwaitChunk
    \/ EarlierForAwaitDone

\* the editor with one provider, or with none after the last was deleted
InitKeys ==
    /\ call = NoCall
    /\ gen = NoGenerator
    /\ run = NoRun
    /\ api = <<>>
    /\ providers = NewProvidersView
    /\ \E configs \in {<<>>} \cup {<<config>> : config \in StreamConfigs} :
           LET w == Mounted([EmptyStorage EXCEPT !.configs = configs])
           IN  view = w.view /\ app = w.app /\ storage = w.storage /\ resolutions = w.resolutions

SpecKeys == InitKeys /\ [][NextKeys]_vars

\* the editor with a system template typed
InitTyped ==
    /\ call = NoCall
    /\ gen = NoGenerator
    /\ run = NoRun
    /\ api = <<>>
    /\ providers = NewProvidersView
    /\ \E config \in StreamConfigs, text \in EditorTexts \ {<<>>} :
           LET mounted == Mounted([EmptyStorage EXCEPT !.configs = <<config>>])
               typed   == [mounted EXCEPT !.view.systemPrompt = text]
               w       == Commit(typed, Changed(mounted, typed))
           IN  view = w.view /\ app = w.app /\ storage = w.storage /\ resolutions = w.resolutions

NextFinish ==
    \/ handleKeyDown
    \/ FetchSettlesForRun
    \/ ReadLines
    \/ ReadDone
    \/ ReadFails
    \/ ForAwaitChunk
    \/ ForAwaitDone
    \/ EarlierFetchSettles
    \/ EarlierReadLines
    \/ EarlierReadDone
    \/ EarlierReadFails
    \/ EarlierForAwaitChunk
    \/ EarlierForAwaitDone

\* the runs of a typed prompt, when every request is answered, every body
\* read is completed or fails, and every loop is resumed when its generator
\* has yielded or is done
SpecFinish ==
    /\ InitTyped /\ [][NextFinish]_vars
    /\ WF_vars(FetchSettlesForRun)
    /\ WF_vars(ReadDone \/ ReadFails)
    /\ WF_vars(ForAwaitChunk)
    /\ WF_vars(ForAwaitDone)
    /\ WF_vars(EarlierFetchSettles)
    /\ WF_vars(EarlierReadDone \/ EarlierReadFails)
    /\ WF_vars(EarlierForAwaitChunk)
    /\ WF_vars(EarlierForAwaitDone)

(***************************************************************************)
(* Specification of the edits made while a run is under way: the templates *)
(* and the variables are edited, another model is selected, the provider   *)
(* is saved again, the editor is left and shown again.  Runs               *)
(* are started with the Run button, which is disabled while one is loading.*)
(***************************************************************************)
\* the answers of the provider to the run that is under way during the
\* edits: two content frames, a rejected fetch
LiveResponses ==
    {StreamResponse(<<ContentLine(Hel), ContentLine(lo)>>, TRUE), RejectedFetch(<<>>)}

\* await fetch(url, ...) of the run settles
FetchSettlesDuringEdits ==
    /\ gen.pc = "fetch"
    /\ \E response \in LiveResponses : gen' = AfterFetch(gen, response)
    /\ UNCHANGED <<call, uiVars>>

NextLive ==
    \/ (~view.isLoading /\ handleRun)
    \/ ChangeSystemPrompt
    \/ ChangeVariable
    \/ handleModelChange
    \/ onChangeView
    \/ ProvidersHandleSave
    \/ FetchSettlesDuringEdits
    \/ ReadLines
    \/ ReadDone
    \/ ReadFails
    \/ ForAwaitChunk
    \/ ForAwaitDone

SpecLive == InitSelect /\ [][NextLive]_vars

(***************************************************************************)
(* Specification of the token counts: the system template is typed key by *)
(* key and the variables it names are given values.                        *)
(***************************************************************************)
TypedKeys == {"{", "a", "}"}

\* the system template field: onChange after a key that adds a character
TypeSystemPrompt ==
    /\ Shown
    /\ Len(view.systemPrompt) < MaxTyped
    /\ \E key \in TypedKeys :
           Handled([World EXCEPT !.view.systemPrompt = Append(@, key)])
    /\ UNCHANGED <<call, gen, run, api, providers>>

NextTokens ==
    \/ TypeSystemPrompt
    \/ ChangeVariable

SpecTokens == InitEditor /\ [][NextTokens]_vars

(***************************************************************************)
(* Specification of the provider client as a whole: one call of            *)
(* generateStream, of fetchModels or of testConnection (which calls        *)
(* generate), for every base address, and every outcome of its request.    *)
(***************************************************************************)
\* a caller calls generateStream and asks for the first increment
CallGenerateStream ==
    /\ gen.pc = "none" /\ api = <<>>
    /\ \E config \in {c \in ApiConfigs : c.models # <<>>} :
           gen' = GeneratorStarted(config, config.models[1],
                                   <<[role |-> "user", content |-> Hi]>>)
    /\ UNCHANGED <<call, uiVars>>

NextClient ==
    \/ CallGenerateStream
    \/ (gen.pc = "none" /\ CallFetchModels)
    \/ (gen.pc = "none" /\ CallTestConnection)
    \/ FetchModelsSettles
    \/ TestConnectionSettles
    \/ FetchSettlesWithUsage
    \/ ReadChunk
    \/ ReadDone
    \/ ReadFails

SpecClient == InitApi /\ [][NextClient]_vars

(***************************************************************************)
(* Specification of the placeholders of two templates: texts that hold     *)
(* whole and cut placeholders are put into the two template fields.        *)
(***************************************************************************)
\* texts put into a template field: whole placeholders, and texts that end
\* with an unclosed '{' or hold a '}' that closes nothing
CutTexts ==
    {<<>>, <<"{","a","}">>, <<"{">>, <<"{","n">>, <<"a","}">>}

\* the system template field: onChange with a text pasted over its content
PasteSystemPrompt ==
    /\ Shown
    /\ \E text \in CutTexts \ {view.systemPrompt} :
           Handled([World EXCEPT !.view.systemPrompt = text])
    /\ UNCHANGED <<call, gen, run, api, providers>>

\* the user template field: onChange with a text pasted over its content
PasteUserPrompt ==
    /\ Shown
    /\ \E text \in CutTexts \ {view.userPrompt} :
           Handled([World EXCEPT !.view.userPrompt = text])
    /\ UNCHANGED <<call, gen, run, api, providers>>

NextPlaceholders ==
    \/ PasteSystemPrompt
    \/ PasteUserPrompt

SpecPlaceholders == InitEditor /\ [][NextPlaceholders]_vars

(***************************************************************************)
(* Specification of the connection tests of a provider that is edited: the *)
(* provider is tested, its form is opened, changed and saved, the outcome  *)
(* of the test arrives before or after.                                    *)
(***************************************************************************)
InitRetest ==
    /\ call = NoCall
    /\ gen = NoGenerator
    /\ run = NoRun
    /\ api = <<>>
    /\ LET configs == <<Provider(<<"p","1">>, <<<<"m">>, <<"b">>>>)>>
           w       == Mounted([EmptyStorage EXCEPT !.configs = configs])
       IN  /\ view = w.view /\ storage = w.storage /\ resolutions = w.resolutions
           /\ app = [w.app EXCEPT !.currentView = "providers"]
           /\ providers = [NewProvidersView EXCEPT !.configs = configs]

NextRetest ==
    \/ runTest
    \/ TestConnectionSettles
    \/ startEdit
    \/ FetchModelsSettlesInForm
    \/ removeModel
    \/ handleSave
    \/ CancelEdit

SpecRetest == InitRetest /\ [][NextRetest]_vars

(***************************************************************************)
(* Specification of the import of a backup: a file is chosen in the        *)
(* settings, the import is confirmed or cancelled, providers are deleted.  *)
(***************************************************************************)
\* a prompt as the library stores it
StoredPrompt(id, systemPrompt) ==
    [id |-> id, systemPrompt |-> systemPrompt, userPrompt |-> <<>>, variables |-> <<>>]

\* the prompt lists of the files chosen
FilePrompts ==
    {<<>>,
     <<StoredPrompt(<<"s","1">>, <<"n","e","w">>)>>,
     <<StoredPrompt(<<"i">>, <<"a">>)>>,
     <<StoredPrompt(<<"i">>, <<"a">>), StoredPrompt(<<"i">>, <<"b">>)>>}

\* the provider lists of the files chosen
FileProviders ==
    {<<>>, <<Provider(<<"p","1">>, <<Llama3Tag>>)>>, <<Provider(<<"q">>, <<Gpt4o>>)>>}

\* the files chosen: backups, and a JSON file that is no backup
ImportFiles ==
    {[version |-> version, prompts |-> prompts, providers |-> configs,
      appSettings |-> settings] :
         version \in {<<"1">>, Undefined}, prompts \in FilePrompts,
         configs \in FileProviders,
         settings \in {<<>>, <<[defaultModels |-> <<<<"m">>, <<"b">>>>]>>}}

\* the file input: onChange, and the onload of its reader
handleFileChange ==
    /\ app.currentView = "settings" /\ ~providers.showImportConfirm
    /\ \E file \in ImportFiles :
           providers' = [providers EXCEPT !.pendingImportData = file,
                                          !.showImportConfirm = TRUE]
    /\ resolutions' = <<>>
    /\ UNCHANGED <<call, gen, run, api, storage, app, view>>

\* the Import button of the confirmation
confirmImport ==
    /\ app.currentView = "settings" /\ providers.showImportConfirm
    /\ storage' = Imported(storage, providers.pendingImportData)
    /\ providers' = [providers EXCEPT !.pendingImportData = NoFile,
                                      !.showImportConfirm = FALSE]
    /\ resolutions' = <<>>
    /\ UNCHANGED <<call, gen, run, api, app, view>>

\* the Cancel button of the confirmation
CancelImport ==
    /\ app.currentView = "settings" /\ providers.showImportConfirm
    /\ providers' = [providers EXCEPT !.pendingImportData = NoFile,
                                      !.showImportConfirm = FALSE]
    /\ resolutions' = <<>>
    /\ UNCHANGED <<call, gen, run, api, storage, app, view>>

\* the library holds a prompt or none, the providers are the default one
InitImport ==
    /\ call = NoCall
    /\ gen = NoGenerator
    /\ run = NoRun
    /\ api = <<>>
    /\ providers = NewProvidersView
    /\ \E prompts \in {{}, {StoredPrompt(<<"s","1">>, <<"o","l","d">>)}} :
           LET w == Mounted([EmptyStorage EXCEPT
                                 !.prompts = prompts,
                                 !.configs = <<Provider(<<"p","1">>, <<Gpt4o>>)>>])
           IN  view = w.view /\ app = w.app /\ storage = w.storage /\ resolutions = w.resolutions

NextImport ==
    \/ ShowSettings
    \/ ShowProviders
    \/ confirmDelete
    \/ handleFileChange
    \/ confirmImport
    \/ CancelImport

SpecImport == InitImport /\ [][NextImport]_vars

(***************************************************************************)
(* Properties of the template resolver.                                    *)
(***************************************************************************)
ResolveReturned == call.fn = "resolveVariables" /\ call.returned

RECURSIVE SubstituteAll(_, _)
\* the text with every placeholder {name} replaced at once: by variables[name]
\* when name is a key, by the empty text when it is not
SubstituteAll(text, variables) ==
    LET starts == {i \in 1..Len(text) :
                      /\ text[i] = "{"
                      /\ i + 1 <= Len(text) /\ text[i + 1] # "}"
                      /\ \E j \in (i + 2)..Len(text) : text[j] = "}"}
    IN  IF starts = {} THEN text
        ELSE LET i    == CHOOSE x \in starts : \A y \in starts : x <= y
                 j    == CHOOSE x \in (i + 2)..Len(text) :
                             text[x] = "}" /\ \A y \in (i + 2)..(x - 1) : text[y] # "}"
                 name == SubSeq(text, i + 1, j - 1)
             IN  SubSeq(text, 1, i - 1) \o OrEmpty(Lookup(variables, name))
                     \o SubstituteAll(SubSeq(text, j + 1, Len(text)), variables)

\* C6: resolve replaces every occurrence of a placeholder {name} by
\* variables[name] when name is a key of the mapping and by the empty string
\* when it is not (so "Hi {name}" with the empty mapping gives "Hi ").
C6_ResolveReplacesEveryPlaceholder ==
    ResolveReturned => call.result = SubstituteAll(call.text, call.variables)

Braces == {"{", "}"}

BraceFree(text) == \A i \in 1..Len(text) : text[i] \notin Braces

\* no '{' of the text is followed by another '{' before the next '}'
NoNestedOpen(text) ==
    \A i \in 1..Len(text), j \in 1..Len(text) :
        (i < j /\ text[i] = "{" /\ text[j] = "{")
            => \E m \in (i + 1)..(j - 1) : text[m] = "}"

\* the keys that are both detected in the template and keys of the mapping
DetectedKeys(text, variables) == Range(detectedVariables(text)) \cap Keys(variables)

\* C7 as stated: for all templates and mappings, values being arbitrary
\* strings, the resolved text contains no {k} for a key k that is detected in
\* the template and is a key of the mapping.
C7_NoPlaceholderOfDetectedKeyLeft ==
    ResolveReturned =>
        \A k \in DetectedKeys(call.text, call.variables) :
            ~Contains(call.result, Placeholder(k))

\* C7 amended: for templates without a nested open brace and mappings whose
\* keys and values contain no brace character, the resolved text contains no
\* {k} for a key k that is detected in the template and is a key of the mapping.
C7_NoPlaceholderLeftForPlainValues ==
    (/\ ResolveReturned
     /\ NoNestedOpen(call.text)
     /\ \A i \in 1..Len(call.variables) :
            BraceFree(call.variables[i][1]) /\ BraceFree(call.variables[i][2]))
        => \A k \in DetectedKeys(call.text, call.variables) :
               ~Contains(call.result, Placeholder(k))

\* a call that resolved a template with two occurrences of a detected key whose
\* value is plain non-empty text
C7_Witness ==
    /\ ResolveReturned
    /\ call.text = <<"{","a","}","{","a","}">>
    /\ call.variables = <<<<<<"a">>, <<"x">>>>>>
    /\ call.result = <<"x","x">>

(***************************************************************************)
(* Properties of the reasoning splitter.                                   *)
(***************************************************************************)
SplitReturned == call.fn = "parsedOutput" /\ call.returned

\* the number of whitespace characters before the first other character
LeadingWhitespace(text) == Len(text) - Len(TrimStart(text))

BeginsWithOpenMarker(text) == StartsWith(TrimStart(text), ThinkOpen)

\* C9: for a text that, with leading whitespace trimmed, begins with <think>
\* and contains </think>, thought is the trimmed text strictly between the
\* open and the close marker and content is the trimmed text after the close
\* marker, also when whitespace precedes the open marker.
C9_ClosedSplit ==
    (SplitReturned /\ BeginsWithOpenMarker(call.text) /\ Contains(call.text, ThinkClose))
        => LET open  == LeadingWhitespace(call.text)
               close == IndexOf(call.text, ThinkClose)
           IN  call.result =
                   [thought |-> Trim(Slice(call.text, open + Len(ThinkOpen), close)),
                    content |-> Trim(SliceFrom(call.text, close + Len(ThinkClose)))]

\* C10: for a text that, with leading whitespace trimmed, begins with <think>
\* and contains no </think>, thought is the trimmed text after the open marker
\* and content is empty, also when whitespace precedes the open marker.
C10_OpenSplit ==
    (SplitReturned /\ BeginsWithOpenMarker(call.text) /\ ~Contains(call.text, ThinkClose))
        => call.result =
               [thought |-> Trim(SliceFrom(call.text,
                                           LeadingWhitespace(call.text) + Len(ThinkOpen))),
                content |-> <<>>]

\* C11: for a text that, with leading whitespace trimmed, does not begin with
\* <think>, the split has no thought and its content is the full text
\* unchanged, also when the text holds <think> or </think> later on.
C11_PlainTextSplit ==
    (SplitReturned /\ ~BeginsWithOpenMarker(call.text))
        => call.result = [thought |-> Null, content |-> call.text]

\* the text "a<think>b </think>" is returned whole as content
C11_Witness ==
    /\ SplitReturned
    /\ call.text = <<"a">> \o ThinkOpen \o <<"b", " ">> \o ThinkClose
    /\ call.result.thought = Null
    /\ call.result.content = call.text

\* the 0-based indices at which the close marker occurs
CloseMarkerIndices(text) ==
    {i \in 0..(Len(text) - Len(ThinkClose)) :
        SubSeq(text, i + 1, i + Len(ThinkClose)) = ThinkClose}

\* C13: when the text holds several close markers the split is made at the
\* first one: everything after it, later close markers included, is content,
\* and the thought ends where the first close marker begins.
C13_SplitAtFirstClose ==
    (SplitReturned /\ BeginsWithOpenMarker(call.text)
        /\ Cardinality(CloseMarkerIndices(call.text)) >= 2)
        => LET first == CHOOSE i \in CloseMarkerIndices(call.text) :
                            \A j \in CloseMarkerIndices(call.text) : i <= j
           IN  /\ call.result.content =
                      Trim(SliceFrom(call.text, first + Len(ThinkClose)))
               /\ EndsWith(TrimEnd(Slice(call.text, 0, first)), call.result.thought)
               /\ ~Contains(call.result.thought, ThinkClose)

\* "<think>a</think></think>": the second close marker is the content
C13_Witness ==
    /\ SplitReturned
    /\ call.text = ThinkOpen \o <<"a">> \o ThinkClose \o ThinkClose
    /\ call.result = [thought |-> <<"a">>, content |-> ThinkClose]

(***************************************************************************)
(* Properties of placeholder detection.                                    *)
(***************************************************************************)
DetectReturned == call.fn = "detectedVariables" /\ call.returned

RECURSIVE NamesOfSegments(_)
\* the names {<name>} of a text cut at every '}': in each piece the name is
\* what follows the first '{' of the piece, when that is not empty
NamesOfSegments(segments) ==
    IF segments = <<>> THEN <<>>
    ELSE LET open == IndexOf(Head(segments), <<"{">>)
             name == SliceFrom(Head(segments), open + 1)
         IN  (IF open # -1 /\ name # <<>> THEN <<name>> ELSE <<>>)
                 \o NamesOfSegments(Tail(segments))

RECURSIVE FirstAppearances(_, _)
\* the names in order, each kept at its first appearance only
FirstAppearances(names, kept) ==
    IF names = <<>> THEN kept
    ELSE FirstAppearances(Tail(names),
                          IF Head(names) \in Range(kept) THEN kept
                          ELSE Append(kept, Head(names)))

\* C14: detection returns each name matching {<name>}, a name being a
\* non-empty run of characters other than '}', exactly once, in the order of
\* first appearance in the scanned text.
C14_DetectionOrderedAndDeduplicated ==
    DetectReturned
        => LET pieces == Split(call.text, <<"}">>)
           IN  /\ call.result =
                      FirstAppearances(
                          NamesOfSegments(SubSeq(pieces, 1, Len(pieces) - 1)), <<>>)
               /\ \A i, j \in 1..Len(call.result) :
                      i # j => call.result[i] # call.result[j]

\* "{a} and {a} and {b}" gives a, b
C14_Witness ==
    /\ DetectReturned
    /\ call.text = AAndAAndB
    /\ call.result = <<<<"a">>, <<"b">>>>

(***************************************************************************)
(* Properties of the streaming completion client.                          *)
(***************************************************************************)
Streaming == gen.pc # "none" /\ gen.response.kind = "http" /\ gen.response.ok
                 /\ gen.response.hasBody

\* the lines of the body that are ended by a newline
TerminatedLines(response) ==
    IF response.finalNewline THEN response.lines
    ELSE SubSeq(response.lines, 1, Len(response.lines) - 1)

RECURSIVE FrameIncrements(_)
\* one increment per well-formed data frame, in frame order
FrameIncrements(lines) ==
    IF lines = <<>> THEN <<>>
    ELSE (IF Head(lines).kind = "content"
          THEN <<ContentIncrement(Head(lines).content, Head(lines).usage)>>
          ELSE <<>>) \o FrameIncrements(Tail(lines))

IsPrefix(p, q) == Len(p) <= Len(q) /\ SubSeq(q, 1, Len(p)) = p

RECURSIVE ConcatContent(_)
\* the concatenation of the content fragments of a sequence of increments
ConcatContent(increments) ==
    IF increments = <<>> THEN <<>>
    ELSE OrEmpty(Head(increments).content) \o ConcatContent(Tail(increments))

RECURSIVE ConcatLineContent(_)
\* the concatenation of the delta contents of the frames
ConcatLineContent(lines) ==
    IF lines = <<>> THEN <<>>
    ELSE OrEmpty(Head(lines).content) \o ConcatLineContent(Tail(lines))

HasError(increments) == \E i \in 1..Len(increments) : increments[i].error # Undefined

\* a body of well-formed data frames followed by the sentinel line
FramesThenDone(response) ==
    /\ response.lines # <<>>
    /\ response.lines[Len(response.lines)] = DoneLine
    /\ \A i \in 1..(Len(response.lines) - 1) : response.lines[i].kind = "content"

\* C2: for well-formed newline-terminated data frames followed by
\* 'data: [DONE]', however the bytes are cut into chunks, the increments are
\* one per frame, in frame order, their contents concatenate to the
\* concatenation of the frames' contents, and none carries an error.
C2_IncrementsIndependentOfChunking ==
    (Streaming /\ FramesThenDone(gen.response) /\ gen.transport # "failed")
        => /\ IsPrefix(gen.yielded, FrameIncrements(gen.response.lines))
           /\ ~HasError(gen.yielded)
           /\ gen.transport = "complete"
                 => /\ gen.yielded = FrameIncrements(gen.response.lines)
                    /\ ConcatContent(gen.yielded) = ConcatLineContent(gen.response.lines)

\* "Hel", "lo" and the sentinel delivered with a chunk boundary inside a line
C2_Witness ==
    /\ gen.pc = "done" /\ gen.transport = "complete" /\ gen.midLine
    /\ gen.response.lines = <<ContentLine(Hel), ContentLine(lo), DoneLine>>
    /\ gen.yielded = <<ContentIncrement(Hel, Undefined), ContentIncrement(lo, Undefined)>>
    /\ ConcatContent(gen.yielded) = <<"H","e","l","l","o">>

HasMalformedLine(response) ==
    \E i \in 1..Len(response.lines) : response.lines[i].kind = "malformed"

\* C3: a data line whose payload fails to decode contributes no increment and
\* does not end the stream: the well-formed frames before and after it yield
\* their increments in order, and no error increment is produced.
C3_MalformedLineSkipped ==
    (Streaming /\ HasMalformedLine(gen.response) /\ gen.transport # "failed")
        => /\ IsPrefix(gen.yielded, FrameIncrements(TerminatedLines(gen.response)))
           /\ ~HasError(gen.yielded)
           /\ gen.transport = "complete"
                 => gen.yielded = FrameIncrements(TerminatedLines(gen.response))

\* a malformed line between two well-formed frames, both delivered
C3_Witness ==
    /\ gen.pc = "done" /\ gen.transport = "complete" /\ gen.midLine
    /\ gen.response.lines = <<ContentLine(Hel), MalformedLine, ContentLine(lo)>>
    /\ gen.response.finalNewline
    /\ gen.yielded = <<ContentIncrement(Hel, Undefined), ContentIncrement(lo, Undefined)>>

HttpFailure == gen.pc # "none" /\ gen.response.kind = "http" /\ ~gen.response.ok

\* C4 as stated: a response whose status is not a success yields exactly one
\* increment, an error without content, and ends; its message is the nested
\* error.message when the body decodes with that field, else 'HTTP Error <status>'.
C4_HttpFailureYieldsNestedMessage ==
    HttpFailure
        => /\ gen.pc = "done"
           /\ gen.yielded =
                  <<ErrorIncrement(
                        IF NestedErrorMessage(gen.response.body) # Undefined
                        THEN NestedErrorMessage(gen.response.body)
                        ELSE HttpErrorPrefix \o Decimal(gen.response.status))>>

\* C4 with the empty message told apart: a response whose status is not a
\* success yields exactly one increment, an error without content, and ends;
\* its message is the nested error.message when that is a non-empty string,
\* and 'HTTP Error <status>' when the body does not decode, lacks the field or
\* holds the empty string in it.
C4_HttpFailureYieldsNonEmptyNestedMessage ==
    HttpFailure
        => /\ gen.pc = "done"
           /\ gen.yielded =
                  <<ErrorIncrement(
                        IF NestedErrorMessage(gen.response.body) \notin {Undefined, <<>>}
                        THEN NestedErrorMessage(gen.response.body)
                        ELSE HttpErrorPrefix \o Decimal(gen.response.status))>>

\* a 401 whose body carries error.message "bad key"
C4_Witness ==
    /\ HttpFailure /\ gen.pc = "done"
    /\ gen.response.status = 401
    /\ gen.response.body = ErrorMessagePre \o <<"b","a","d"," ","k","e","y">> \o ErrorMessagePost
    /\ gen.yielded = <<ErrorIncrement(<<"b","a","d"," ","k","e","y">>)>>

\* C5: an error increment is terminal: at most one is yielded and nothing
\* after it; a transport failure, before the response or on any read, yields
\* exactly one such increment and ends the sequence.
C5_ErrorIncrementTerminal ==
    gen.pc # "none"
        => /\ \A i \in 1..Len(gen.yielded) :
                  gen.yielded[i].error # Undefined
                      => i = Len(gen.yielded) /\ gen.pc = "done"
           /\ gen.transport = "failed"
                 => /\ gen.pc = "done"
                    /\ gen.yielded # <<>>
                    /\ gen.yielded[Len(gen.yielded)].error # Undefined
                    /\ gen.yielded[Len(gen.yielded)].content = Undefined

\* a read fails after "Hel" was delivered
C5_Witness ==
    /\ gen.pc = "done" /\ gen.transport = "failed"
    /\ gen.yielded = <<ContentIncrement(Hel, Undefined), ErrorIncrement(<<"F","a","i","l","e","d"," ","t","o"," ","f","e","t","c","h">>)>>

(***************************************************************************)
(* Properties of the editor view.                                          *)
(***************************************************************************)
\* C1: every generation request started by handleRun passes to generateStream
\* a model identifier that is an element of the models list of the selected
\* provider configuration, whatever provider id and model identifier the
\* selector holds.
C1_RunPassesModelOfSelectedConfig ==
    gen.pc # "none" => gen.request.model \in Range(gen.config.models)

\* C8: whenever the templates are resolved (token counting, copy or run),
\* every placeholder name detected in the current system and user templates
\* is a key of the variables mapping.
C8_DetectedNamesAreKeysWhenResolved ==
    \A i \in 1..Len(resolutions) :
        \A name \in Range(detectedVariables(resolutions[i].systemPrompt
                                              \o resolutions[i].userPrompt)) :
            HasKey(resolutions[i].variables, name)

\* the content fragments of the increments the loop of handleRun has taken
AccumulatedOutput == ConcatContent(SubSeq(gen.yielded, 1, run.taken))

\* C12: whatever the increments a run has consumed and however the answer was
\* cut into them, the output of the view is the concatenation of their
\* content fragments and the split shown is the split of that whole text.
C12_SplitOfAccumulatedOutput ==
    run.pc # "none"
        => /\ view.output = AccumulatedOutput
           /\ view.parsedOutput = parsedOutput(AccumulatedOutput)

\* the open marker arrives in two increments, the close marker in a third
C12_Witness ==
    /\ run.pc = "loop" /\ run.taken = 3
    /\ gen.yielded[1].content = <<"<","t","h","i">>
    /\ gen.yielded[2].content = <<"n","k",">","a">>
    /\ view.parsedOutput.thought = <<"a">>
    /\ view.parsedOutput.content = <<"b">>

(***************************************************************************)
(* Properties of the provider client.                                      *)
(***************************************************************************)
\* the calls of a function of the client
CallsOf(fn) == {i \in 1..Len(api) : api[i].fn = fn}

\* the calls of a function that have returned
ReturnedOf(fn) == {i \in CallsOf(fn) : api[i].pc = "done"}

\* the address with its trailing completion path replaced by the models path,
\* or with the models path appended
TrailingSuffixReplaced(baseUrl) ==
    LET url == IF EndsWith(baseUrl, <<"/">>) THEN SubSeq(baseUrl, 1, Len(baseUrl) - 1)
               ELSE baseUrl
    IN  IF EndsWith(url, ChatCompletionsPath)
        THEN SubSeq(url, 1, Len(url) - Len(ChatCompletionsPath)) \o ModelsPath
        ELSE url \o ModelsPath

\* C15: fetchModels requests the base address, one trailing slash stripped,
\* with the trailing /chat/completions replaced by /models when it ends with
\* it and with /models appended otherwise, wherever else the address holds
\* /chat/completions.
C15_ModelsUrlReplacesTrailingSuffix ==
    \A i \in CallsOf("fetchModels") :
        /\ Len(api[i].requests) = 1
        /\ api[i].requests[1].url = TrailingSuffixReplaced(api[i].config.baseUrl)

\* a success response whose body is decoded
Decoded(c) ==
    /\ c.response.kind = "http" /\ c.response.ok
    /\ ParseModels(c.response.body).kind # "SyntaxError"

\* C16: a decoded response whose data or models is a list gives a success,
\* and a decoded response of any other shape gives a failure with the
\* message 'Unrecognized response format'.
C16_OtherShapesAreUnrecognized ==
    \A i \in ReturnedOf("fetchModels") :
        Decoded(api[i])
            => IF ParseModels(api[i].response.body).array # "none"
               THEN api[i].result.success
               ELSE api[i].result = ModelsFailure(UnrecognizedResponseFormat)

\* whether no item comes before an earlier one
IsSorted(items) ==
    \A i, j \in 1..Len(items) : i < j => ~Precedes(items[j], items[i])

\* C17: a successful result of fetchModels holds the identifiers in
\* lexicographic order and no error; a failed result holds an error message
\* and no models list.
C17_SortedOrFailed ==
    \A i \in ReturnedOf("fetchModels") :
        IF api[i].result.success
        THEN /\ DOMAIN api[i].result = {"success", "models"}
             /\ IsSorted(api[i].result.models)
             /\ Len(api[i].result.models) = Len(ParseModels(api[i].response.body).items)
        ELSE /\ DOMAIN api[i].result = {"success", "error"}
             /\ api[i].result.error \in Seq(STRING)

\* the provider lists "b" before "B"
C17_Witness ==
    /\ \E i \in ReturnedOf("fetchModels") :
           /\ api[i].response.body
                  = DataListPre \o IdItemPre \o <<"b">> \o ItemPost \o Comma
                        \o IdItemPre \o <<"B">> \o ItemPost \o ListPost
           /\ api[i].result.models = <<<<"B">>, <<"b">>>>

\* C18: testConnection with an empty models list has returned a failure with
\* the message 'No models configured' and has issued no request.
C18_NoModelsNoRequest ==
    \A i \in CallsOf("testConnection") :
        Len(api[i].config.models) = 0
            => /\ api[i].pc = "done"
               /\ api[i].requests = <<>>
               /\ api[i].result = [success |-> FALSE, message |-> NoModelsConfigured]

C18_Witness ==
    \E i \in CallsOf("testConnection") :
        /\ api[i].config.models = <<>>
        /\ api[i].result.message = NoModelsConfigured

\* C19: testConnection with a non-empty models list issues one request, not
\* streamed, for the first model with one user message; it reports success
\* exactly when generate returned no error, whatever the content, and the
\* message of a failure is the error generate returned.
C19_OneRequestSuccessIffNoError ==
    \A i \in CallsOf("testConnection") :
        Len(api[i].config.models) > 0
            => /\ Len(api[i].requests) = 1
               /\ ~api[i].requests[1].stream
               /\ api[i].requests[1].model = api[i].config.models[1]
               /\ Len(api[i].requests[1].messages) = 1
               /\ api[i].requests[1].messages[1].role = "user"
               /\ api[i].pc = "done"
                      => /\ api[i].result.success <=> api[i].generated.error = Undefined
                         /\ ~api[i].result.success
                                => api[i].result.message = api[i].generated.error

\* the provider answers with an object that holds no content
C19_Witness ==
    \E i \in ReturnedOf("testConnection") :
        /\ api[i].config.models = <<<<"n">>, <<"m">>>>
        /\ api[i].requests[1].model = <<"n">>
        /\ api[i].response.body = EmptyObject
        /\ api[i].generated.content = <<>>
        /\ api[i].result.success

(***************************************************************************)
(* Properties of the connection tests.                                     *)
(***************************************************************************)
\* the calls of testConnection made for a configuration
ProbesOf(id) == {i \in CallsOf("testConnection") : api[i].config.id = id}

\* the test result runTest sets for a call that has returned
Outcome(c) ==
    [status |-> IF c.result.success THEN "success" ELSE "error", message |-> c.result.message]

\* C20: Test All calls testConnection once for every configuration, and the
\* flag is set exactly while one of these calls has not returned.  The test
\* result of a configuration comes from its own calls and from no other: it
\* is absent when the configuration was never tested, 'loading' only while
\* one of its calls has not returned, and otherwise the outcome of one of its
\* calls that have returned.  So when every call has returned, every tested
\* configuration has the status success or error and the flag is cleared.
C20_ProbesIndependentAndJoined ==
    /\ providers.isGlobalTesting <=> JoinPending(api)
    /\ \A c \in 1..Len(providers.configs) :
           LET id     == providers.configs[c].id
               result == Lookup(providers.testResults, id)
           IN  IF ProbesOf(id) = {} THEN ~HasKey(providers.testResults, id)
               ELSE /\ HasKey(providers.testResults, id)
                    /\ \/ result.status = "loading"
                             /\ \E i \in ProbesOf(id) : api[i].pc # "done"
                       \/ \E i \in ProbesOf(id) : api[i].pc = "done" /\ result = Outcome(api[i])
    /\ (\A i \in 1..Len(api) : api[i].pc = "done")
           => /\ ~providers.isGlobalTesting
              /\ \A e \in 1..Len(providers.testResults) :
                     providers.testResults[e][2].status \in {"success", "error"}
    /\ \A i \in 1..Len(api) :
           api[i].then.by = "handleTestAll"
               => \A c \in 1..Len(providers.configs) :
                      Cardinality({j \in 1..Len(api) :
                                      /\ api[j].then = api[i].then
                                      /\ api[j].config = providers.configs[c]}) = 1

\* Test All of two configurations has joined: the request of the first was
\* rejected, and the second has succeeded
C20_Witness ==
    /\ Len(api) = 2 /\ ~providers.isGlobalTesting
    /\ api[1].then.by = "handleTestAll" /\ api[2].then.by = "handleTestAll"
    /\ api[1].response.kind = "rejected" /\ api[2].response.kind = "http"
    /\ Lookup(providers.testResults, api[1].config.id).status = "error"
    /\ Lookup(providers.testResults, api[2].config.id).status = "success"

(***************************************************************************)
(* Properties of the provider client as a whole.                           *)
(***************************************************************************)
\* the request of a call of fetchModels or testConnection failed: fetch
\* rejected, the status is not a success, or the body does not decode
RequestFailed(c) ==
    \/ c.response.kind = "rejected"
    \/ ~c.response.ok
    \/ c.fn = "fetchModels" /\ ParseModels(c.response.body).kind = "SyntaxError"
    \/ c.fn = "testConnection" /\ ParseCompletion(c.response.body).kind = "SyntaxError"

\* the request of the generator failed: fetch rejected, the status is not a
\* success, the response has no body, or a read was rejected
StreamFailed ==
    \/ gen.response.kind = "rejected"
    \/ ~gen.response.ok
    \/ ~gen.response.hasBody
    \/ gen.transport = "failed"

\* C21: none of generate, generateStream, fetchModels and testConnection
\* throws or rejects to its caller: a call that has ended has returned a
\* result (the generator: has completed), and when its request failed (fetch
\* rejected, status not a success, body not decodable, no body, read rejected)
\* the result says so: success is false, generate gives a non-empty error, and
\* the last increment of the generator is an error increment.
C21_FailuresAreReportedNotThrown ==
    /\ gen.pc \in {"none", "fetch", "read", "done"}
    /\ gen.pc = "done" /\ StreamFailed
           => /\ gen.yielded # <<>>
              /\ Truthy(gen.yielded[Len(gen.yielded)].error)
    /\ \A i \in 1..Len(api) :
           /\ api[i].pc \in {"fetch", "done"}
           /\ api[i].pc = "done"
                  => /\ "success" \in DOMAIN api[i].result
                     /\ api[i].result.success \in BOOLEAN
                     /\ api[i].fn = "testConnection" /\ api[i].requests # <<>>
                            => /\ DOMAIN api[i].generated = {"content", "usage", "error"}
                               /\ RequestFailed(api[i]) => Truthy(api[i].generated.error)
                     /\ api[i].requests # <<>> /\ RequestFailed(api[i])
                            => /\ ~api[i].result.success
                               /\ api[i].fn = "fetchModels" => "error" \in DOMAIN api[i].result
                               /\ api[i].fn = "testConnection" => Truthy(api[i].result.message)

\* a read is rejected after the first increment was delivered, and the
\* generator ends with an error increment
C21_Witness ==
    /\ gen.pc = "done" /\ gen.transport = "failed"
    /\ gen.response.kind = "http" /\ gen.response.ok
    /\ Len(gen.yielded) = 2
    /\ gen.yielded[2].error = StreamErrorMessage

\* the base address without one trailing slash, with the completion path
\* appended unless its last characters are that path
Target(baseUrl) ==
    LET n    == Len(baseUrl)
        url  == IF n > 0 /\ baseUrl[n] = "/" THEN SubSeq(baseUrl, 1, n - 1) ELSE baseUrl
        k    == Len(url) - Len(ChatCompletionsPath)
        ends == k >= 0 /\ SubSeq(url, k + 1, Len(url)) = ChatCompletionsPath
    IN  IF ends THEN url ELSE url \o ChatCompletionsPath

\* C27: the request target depends on the base address alone: it is the base
\* address without one trailing '/', with '/chat/completions' appended unless
\* it already ends with it; generateStream and generate (called by
\* testConnection) request the same target for the same base address, and
\* the normalization of a target is that target.
C27_TargetIsNormalizedBaseAddress ==
    /\ gen.pc # "none"
           => /\ gen.request.url = Target(gen.config.baseUrl)
              /\ gen.request.url = GenerateUrl(gen.config.baseUrl)
              /\ CompletionUrl(gen.request.url) = gen.request.url
    /\ \A i \in 1..Len(api) :
           api[i].fn = "testConnection" /\ api[i].requests # <<>>
               => /\ api[i].requests[1].url = Target(api[i].config.baseUrl)
                  /\ api[i].requests[1].url = CompletionUrl(api[i].config.baseUrl)
                  /\ GenerateUrl(api[i].requests[1].url) = api[i].requests[1].url

\* generate is asked with a base address that ends with the completion path
\* and a slash: the slash is stripped and nothing is appended
C27_Witness ==
    /\ Len(api) = 1 /\ api[1].fn = "testConnection" /\ api[1].pc = "done"
    /\ api[1].config.baseUrl = Host \o V1 \o ChatCompletionsPath \o <<"/">>
    /\ Len(api[1].requests) = 1
    /\ api[1].requests[1].url = Host \o V1 \o ChatCompletionsPath

(***************************************************************************)
(* Further properties of the streaming completion client.                  *)
(***************************************************************************)
HasIgnoredLine(response) ==
    \E i \in 1..Len(response.lines) : response.lines[i].kind \in {"done", "blank"}

\* C25: a blank line and the line 'data: [DONE]' yield no increment and do
\* not stop the generator: the data frames before and after them in the body
\* yield their increments in order, and the generator ends without an error
\* only when the transport has signalled completion, with every byte read.
C25_SentinelAndBlankLinesIgnored ==
    (Streaming /\ HasIgnoredLine(gen.response) /\ gen.transport # "failed")
        => /\ Len(gen.yielded) <= Len(FrameIncrements(TerminatedLines(gen.response)))
           /\ \A i \in 1..Len(gen.yielded) :
                  gen.yielded[i] = FrameIncrements(TerminatedLines(gen.response))[i]
           /\ gen.pc = "done"
                 => /\ gen.transport = "complete"
                    /\ gen.wire = <<>>
                    /\ Len(gen.yielded) = Len(FrameIncrements(TerminatedLines(gen.response)))

\* the sentinel is the first line of the body and "Hel" follows it: the
\* transport has completed and "Hel" was yielded
C25_Witness ==
    /\ gen.pc = "done" /\ gen.transport = "complete"
    /\ gen.response.lines = <<DoneLine, ContentLine(Hel)>>
    /\ gen.response.finalNewline
    /\ gen.yielded = <<ContentIncrement(Hel, Undefined)>>

(***************************************************************************)
(* Properties of the token counts of the editor.                           *)
(***************************************************************************)
\* n is the least number of groups of four characters that hold the text
IsQuarterRoundedUp(n, text) ==
    /\ n \in Nat
    /\ 4 * n >= Len(text)
    /\ n > 0 => 4 * (n - 1) < Len(text)

\* C30: each token count of the editor is 0 for an empty text and the length
\* divided by four, rounded up, otherwise; the counts of the raw templates
\* are taken of the templates, the resolved counts of the templates resolved
\* with the variables of the editor.
C30_TokenCountsAreQuarterLengths ==
    /\ IsQuarterRoundedUp(view.tokenCounts.sysRaw, view.systemPrompt)
    /\ IsQuarterRoundedUp(view.tokenCounts.userRaw, view.userPrompt)
    /\ IsQuarterRoundedUp(view.tokenCounts.sysResolved,
                          resolveVariables(view.systemPrompt, view.variables))
    /\ IsQuarterRoundedUp(view.tokenCounts.userResolved,
                          resolveVariables(view.userPrompt, view.variables))

\* a system template of five characters, counted as two, whose resolved text
\* is counted as one, next to an empty user template counted as zero
C30_Witness ==
    /\ Len(view.systemPrompt) = 5
    /\ view.tokenCounts.sysRaw = 2
    /\ view.tokenCounts.sysResolved = 1
    /\ view.userPrompt = <<>> /\ view.tokenCounts.userRaw = 0

(***************************************************************************)
(* Properties of the provider form.                                        *)
(***************************************************************************)
NoDuplicates(list) ==
    \A i \in 1..Len(list), j \in 1..Len(list) : i # j => list[i] # list[j]

\* C28: the models of the provider form, while the form is open, and the
\* models of every stored provider configuration hold no identifier twice.
C28_ModelsHoldNoIdentifierTwice ==
    /\ providers.editingId # Null => NoDuplicates(providers.form.models)
    /\ \A i \in 1..Len(storage.configs) : NoDuplicates(storage.configs[i].models)

(***************************************************************************)
(* Properties of the runs of the editor.                                   *)
(***************************************************************************)
RECURSIVE LastUsage(_)
\* the last usage snapshot among the increments, null when there is none
LastUsage(increments) ==
    IF increments = <<>> THEN Null
    ELSE IF Truthy(increments[Len(increments)].usage)
    THEN increments[Len(increments)].usage
    ELSE LastUsage(SubSeq(increments, 1, Len(increments) - 1))

\* C23: once handleRun has started a run, the usage the editor holds is the
\* last usage snapshot among the increments its loop has taken from the
\* generator of that run, and null when it has taken none with a snapshot.
C23_HeldUsageIsLatestSnapshotOfRun ==
    run.pc \in {"loop", "finished"}
        => view.usage = LastUsage(SubSeq(gen.yielded, 1, run.taken))


\* the runs of the editor: the earlier ones and the last one
Runs == run.earlier \o <<[gen |-> gen, pc |-> run.pc, fullContent |-> run.fullContent,
                          taken |-> run.taken]>>

\* the increments of r agree with the frames they were decoded from: no
\* content fragment for a frame without content, no usage for one without
CarriesWhatFrameHolds(r) ==
    \A i \in 1..Len(r.gen.yielded) :
        r.gen.yielded[i].error = Undefined
            => /\ r.gen.response.lines[i].content = Undefined
                      => ~Truthy(r.gen.yielded[i].content)
               /\ r.gen.response.lines[i].usage = Undefined
                      => r.gen.yielded[i].usage = Undefined

\* the loop of before takes an increment without a content fragment
TakesContentless(before, after) ==
    /\ before.pc = "loop" /\ after.gen = before.gen
    /\ before.taken < Len(before.gen.yielded)
    /\ after.taken = before.taken + 1
    /\ ~Truthy(before.gen.yielded[before.taken + 1].content)

\* C24: the increment of a frame whose delta has no content carries no
\* content fragment, and the step of the loop that takes it leaves the output
\* and the accumulated text as they are; the increment of a frame without a
\* usage field carries no usage.
C24_NoContentNothingAppended ==
    /\ [](\A i \in 1..Len(Runs) : Runs[i].gen.pc # "none" => CarriesWhatFrameHolds(Runs[i]))
    /\ [][\A i \in 1..Len(Runs) :
              (i <= Len(Runs') /\ TakesContentless(Runs[i], Runs'[i]))
                  => /\ view'.output = view.output
                     /\ Runs'[i].fullContent = Runs[i].fullContent]_vars

\* the answer is "lo" with usage, then a frame without content and without
\* usage; the loop has taken both increments and the output is "lo"
C24_Witness ==
    /\ run.pc = "loop" /\ run.taken = 2 /\ run.earlier = <<>>
    /\ gen.response.kind = "http" /\ gen.response.ok
    /\ gen.response.lines = <<ContentUsageLine(lo, <<"9">>), DeltaLine>>
    /\ gen.yielded[2] = ContentIncrement(<<>>, Undefined)
    /\ view.output = lo /\ view.usage = UsageSnapshot(<<"9">>)


\* a request is not answered yet, a body is being read or a loop is running
Pending == \E i \in 1..Len(Runs) : Runs[i].gen.pc \in {"fetch", "read"} \/ Runs[i].pc = "loop"

\* C29: the completion of the transport adds no increment; and whenever a
\* run is under way or the loading flag is set, a state follows in which
\* every generator is done, every loop has ended and the loading flag is
\* false.
C29_EveryRunFinishesNotLoading ==
    /\ [][(gen.pc = "read" /\ gen'.pc = "done" /\ gen'.transport = "complete")
              => gen'.yielded = gen.yielded]_vars
    /\ (Pending \/ view.isLoading) ~> (~Pending /\ ~view.isLoading)

\* the last run ended with an error increment after a failure of its
\* transport, the earlier one with the completion of its transport, and the
\* editor is not loading
C29_Witness ==
    /\ run.pc = "finished" /\ ~view.isLoading
    /\ gen.transport = "failed" /\ Truthy(gen.yielded[Len(gen.yielded)].error)
    /\ Len(run.earlier) = 1
    /\ run.earlier[1].pc = "finished"
    /\ run.earlier[1].gen.transport = "complete"
    /\ run.earlier[1].taken = 2


\* C26: while the request of a generator is not answered or its body is
\* being read, no step changes the address, the credential, the model or
\* the messages of the request, nor the configuration the generator was
\* given; the increments it has yielded stay, and its loop stays where it is
\* or takes the next increment.
C26_RequestKeepsItsSnapshot ==
    [][\A i \in 1..Len(Runs) :
           Runs[i].gen.pc \in {"fetch", "read"}
               => /\ i <= Len(Runs')
                  /\ Runs'[i].gen.request = Runs[i].gen.request
                  /\ Runs'[i].gen.config = Runs[i].gen.config
                  /\ IsPrefix(Runs[i].gen.yielded, Runs'[i].gen.yielded)
                  /\ Runs'[i].pc = "loop"
                  /\ Runs'[i].taken \in {Runs[i].taken, Runs[i].taken + 1}
                  /\ Runs'[i].taken <= Len(Runs'[i].gen.yielded)]_vars

\* the body of the answer is being read and "Hel" is on the screen; since the
\* request was made the system template was emptied, the other model was
\* selected and the provider was saved with other models
C26_Witness ==
    /\ gen.pc = "read" /\ run.pc = "loop" /\ run.taken = 1
    /\ view.output = Hel
    /\ gen.request.messages[1].content # <<>>
    /\ view.systemPrompt = <<>>
    /\ view.selectedModelKey # ModelKey(gen.config.id, gen.request.model)
    /\ Len(storage.configs) = 1
    /\ storage.configs[1].id = gen.config.id
    /\ storage.configs[1].models # gen.config.models


BothTemplatesBlank == Trim(view.systemPrompt) = <<>> /\ Trim(view.userPrompt) = <<>>

\* the selection holds no provider of the editor's list, or no model
SelectionNamesNothing ==
    LET parts == Split(view.selectedModelKey, <<":">>)
    IN  FindIndex(view.configs, At(parts, 1)) = 0 \/ ~Truthy(At(parts, 2))

C31_ImportMergesPromptsAndProviders ==
    [][(confirmImport /\ Truthy(providers.pendingImportData.version))
           => LET file == providers.pendingImportData
              IN  /\ \A p \in storage.prompts :
                         (\A i \in 1..Len(file.prompts) : file.prompts[i].id # p.id)
                             => p \in storage'.prompts
                  /\ \A i \in 1..Len(storage.configs) :
                         FindIndex(file.providers, storage.configs[i].id) = 0
                             => storage.configs[i] \in Range(storage'.configs)
                  /\ \A i \in 1..Len(file.prompts) :
                         (\A j \in (i + 1)..Len(file.prompts) :
                              file.prompts[j].id # file.prompts[i].id)
                             => file.prompts[i] \in storage'.prompts
                  /\ \A i \in 1..Len(file.providers) :
                         file.providers[i] \in Range(storage'.configs)]_vars

(***************************************************************************)
(* Properties of the placeholders of two templates.                        *)
(***************************************************************************)
\* C32: the set of placeholder names the editor detects for its two
\* templates is the union of the names detected in the system template alone
\* and of the names detected in the user template alone.
C32_DetectedIsUnionOfSeparateScans ==
    Range(Rendered(World).detectedVariables) =
        Range(detectedVariables(view.systemPrompt))
            \cup Range(detectedVariables(view.userPrompt))


\* C33: at most one loop of handleRun is consuming a generator at any time,
\* and the loading flag is set for as long as one is.
C33_AtMostOneRunActive ==
    LET active == {i \in 1..Len(Runs) : Runs[i].pc = "loop"}
    IN  /\ Cardinality(active) <= 1
        /\ active # {} => view.isLoading


(***************************************************************************)
(* Properties of the end of the stream.                                    *)
(***************************************************************************)
\* C34: when the transport completes after a body whose last line is a
\* well-formed data frame not followed by a newline, the increment of that
\* frame has been yielded: the increments are those of all the frames of the
\* body, the last one included.
C34_FinalFrameWithoutNewlineYielded ==
    (/\ Streaming /\ gen.pc = "done" /\ gen.transport = "complete"
     /\ gen.response.lines # <<>> /\ ~gen.response.finalNewline
     /\ gen.response.lines[Len(gen.response.lines)].kind = "content")
        => gen.yielded = FrameIncrements(gen.response.lines)


(***************************************************************************)
(* Properties of the suggested models of the provider form.                *)
(***************************************************************************)
\* the requests for models made for the provider the form is open for
RequestsOfForm ==
    {i \in 1..Len(api) : api[i].fn = "fetchModels" /\ api[i].config.id = providers.form.id}

\* C35: while the form is open, the fetched models are none or the models
\* returned to a request made for the provider of the form, and the fetching
\* flag is set while such a request is not answered.
C35_FetchedModelsAreOfOpenProvider ==
    providers.editingId # Null
        => /\ providers.fetchedModels # <<>>
                  => \E i \in RequestsOfForm :
                         /\ api[i].pc = "done" /\ api[i].result.success
                         /\ api[i].result.models = providers.fetchedModels
           /\ (\E i \in RequestsOfForm : api[i].pc = "fetch")
                  => providers.isFetchingModels


(***************************************************************************)
(* Properties of the test results of a saved provider.                     *)
(***************************************************************************)
\* C36: saving the form removes the test result of the provider of the form,
\* and a provider without a test result gets one only in the step that
\* starts a test of it.
C36_SavedProviderHasNoResultUntilTested ==
    /\ [][handleSave => ~HasKey(providers'.testResults, providers.form.id)]_vars
    /\ [][\A i \in 1..Len(providers.configs) :
              LET id == providers.configs[i].id
              IN  (~HasKey(providers.testResults, id) /\ HasKey(providers'.testResults, id))
                      => /\ Len(api') = Len(api) + 1
                         /\ api'[Len(api')].fn = "testConnection"
                         /\ api'[Len(api')].config.id = id]_vars


(***************************************************************************)
(* Properties of the order of the replacements of the resolver.            *)
(***************************************************************************)
\* the entries of the mapping in every order
Reordered(variables) ==
    {[i \in 1..Len(variables) |-> variables[f[i]]] :
        f \in Permutations(1..Len(variables))}

RECURSIVE SubstituteAtOnce(_, _)
\* the text with the placeholder of every key of the mapping replaced by the
\* value of the key in one pass from left to right: what is put in is not
\* looked at again
SubstituteAtOnce(text, variables) ==
    IF text = <<>> THEN <<>>
    ELSE LET here == {k \in Keys(variables) : StartsWith(text, Placeholder(k))}
         IN  IF here = {}
             THEN <<Head(text)>> \o SubstituteAtOnce(Tail(text), variables)
             ELSE LET k == CHOOSE key \in here : TRUE
                  IN  OrEmpty(Lookup(variables, k))
                          \o SubstituteAtOnce(SubSeq(text, Len(Placeholder(k)) + 1, Len(text)),
                                              variables)

\* C37: the text resolveVariables returns is the same for every order of the
\* entries of the mapping, and it is the text with the placeholders of the
\* keys replaced at once, a placeholder inside a value being left as it is.
C37_ResolveIsSimultaneousAndOrderFree ==
    ResolveReturned
        => /\ \A entries \in Reordered(call.variables) :
                  resolveVariables(call.text, entries) = call.result
           /\ call.result = SubstituteAtOnce(call.text, call.variables)


(***************************************************************************)
(* Properties of the opening of a library prompt.                          *)
(***************************************************************************)
\* the templates, the variables and the id of the editor
EditorContent == <<view.systemPrompt, view.userPrompt, view.variables, view.currentId>>

\* a template of the editor is not blank, and prompt has another id than the
\* prompt loaded, or other templates or variables than the editor
WouldBeLost(prompt) ==
    /\ Trim(view.systemPrompt) # <<>> \/ Trim(view.userPrompt) # <<>>
    /\ \/ prompt.id # view.currentId
       \/ prompt.systemPrompt # view.systemPrompt
       \/ prompt.userPrompt # view.userPrompt
       \/ prompt.variables # view.variables

TakesError(before, after) ==
    /\ before.pc = "loop" /\ after.gen = before.gen
    /\ before.taken < Len(before.gen.yielded)
    /\ after.taken = before.taken + 1
    /\ Truthy(before.gen.yielded[before.taken + 1].error)

\* C39: the step of a loop that takes an error increment sets the error of
\* the editor to its message and ends the loop, and leaves the output, its
\* split, the accumulated text and the usage as they were; a loop that has
\* ended takes no further increment of its generator.
C39_ErrorKeepsOutputAndUsage ==
    /\ [][\A i \in 1..Len(Runs) :
              (i <= Len(Runs') /\ TakesError(Runs[i], Runs'[i]))
                  => /\ view'.error = Runs[i].gen.yielded[Runs[i].taken + 1].error
                     /\ Runs'[i].pc = "finished"
                     /\ view'.output = view.output
                     /\ view'.parsedOutput = view.parsedOutput
                     /\ view'.usage = view.usage
                     /\ Runs'[i].fullContent = Runs[i].fullContent]_vars
    /\ [][\A i \in 1..Len(Runs) :
              (i <= Len(Runs') /\ Runs[i].pc = "finished" /\ Runs'[i].gen = Runs[i].gen)
                  => Runs'[i].taken = Runs[i].taken /\ Runs'[i].pc = "finished"]_vars

\* the body failed after the line with "lo" and a usage snapshot was read:
\* the error is shown, the output is "lo" and the usage is held
C39_Witness ==
    /\ run.pc = "finished" /\ run.earlier = <<>>
    /\ gen.transport = "failed"
    /\ run.taken = 2 /\ Len(gen.yielded) = 2
    /\ Truthy(gen.yielded[1].content)
    /\ view.error = gen.yielded[2].error /\ Truthy(view.error)
    /\ view.output = lo /\ view.usage = UsageSnapshot(<<"9">>)
    /\ ~view.isLoading

\* a pass of the loop of handleRun that appends a content fragment to an
\* accumulated output in which the close marker has appeared
IncrementAfterClose ==
    /\ run.pc = "loop" /\ run'.taken = run.taken + 1
    /\ Contains(run.fullContent, ThinkClose)
    /\ run'.fullContent # run.fullContent

\* C40: once the close marker is in the accumulated output of a run, a content
\* increment leaves the thought as it was, and the content becomes the text
\* that followed the first close marker with the increment appended, trimmed
\* at its ends (the whole output with the increment appended when the output
\* does not open with the open marker); the content before is a prefix of it.
C40_SplitIsStableAfterClose ==
    [][IncrementAfterClose
         => LET appended == SliceFrom(run'.fullContent, Len(run.fullContent))
                thinkEnd == IndexOf(run.fullContent, ThinkClose)
            IN  /\ run'.fullContent = run.fullContent \o appended
                /\ view.output = run.fullContent
                /\ view'.parsedOutput.thought = view.parsedOutput.thought
                /\ IsPrefix(view.parsedOutput.content, view'.parsedOutput.content)
                /\ view'.parsedOutput.content =
                       IF view.parsedOutput.thought = Null
                       THEN view.parsedOutput.content \o appended
                       ELSE Trim(SliceFrom(run.fullContent, thinkEnd + 8) \o appended)]_vars

\* a whole reasoning block, then a second close marker, then a third fragment:
\* the thought is that of the block and the content holds the second marker
C40_Witness ==
    /\ run.pc = "loop" /\ run.taken = 3
    /\ gen.yielded[1].content = ThinkOpen \o <<"a">> \o ThinkClose \o <<" ">>
    /\ gen.yielded[2].content = ThinkClose \o <<"b">>
    /\ gen.yielded[3].content = <<"n","k",">","a">>
    /\ view.parsedOutput.thought = <<"a">>
    /\ view.parsedOutput.content = ThinkClose \o <<"b","n","k",">","a">>
====
